---------------------------- MODULE Spec2Model ----------------------------
(***************************************************************************)
(* Envelope encryption layer of the Recall journal (lib/crypto.ts):        *)
(* master key / per-user data key wrapping, the AES-256-GCM envelope for   *)
(* journal text, and first-use provisioning of a user's data key against   *)
(* the user_keys table.                                                    *)
(*                                                                         *)
(* Byte strings are sequences over 0..255.  Text handed to Buffer.from or  *)
(* returned by toString("base64") is a sequence of base64 symbols:         *)
(* 0..63 the sextets, 64 the pad '=', 65 a character outside the alphabet. *)
(* JavaScript strings are sequences of UTF-16 code units.                  *)
(***************************************************************************)
EXTENDS Integers, Sequences, FiniteSets, TLC

\* ---------------------------------------------------------------- bounds

\* Longest plaintext, in UTF-16 code units.
MaxLen == 2
\* Number of distinct outcomes the secure random source can produce.
NumRand == 2
\* Number of getOrCreateUserDataKey invocations in a run.
NumCalls == 2
\* Number of users.
NumUsers == 2

\* ------------------------------------------------------ program constants

IV_LENGTH == 12
AUTH_TAG_LENGTH == 16
KEY_LENGTH == 32

\* ------------------------------------------------------------ byte helpers

\* A function on 1..n as an explicit sequence.
Tuple(f) == f \o <<>>

\* A function as an explicit table of its values.
Table(f) == f @@ [x \in {} |-> 0]

\* Exclusive or of two bits.
XorBit(a, b) == (a + b) % 2

\* Exclusive or of two half-bytes, bit by bit, tabulated.
XorNibble ==
  Table([a \in 0..15 |-> Table([b \in 0..15 |->
    XorBit(a % 2, b % 2)
      + (2 * XorBit((a \div 2) % 2, (b \div 2) % 2))
      + (4 * XorBit((a \div 4) % 2, (b \div 4) % 2))
      + (8 * XorBit(a \div 8, b \div 8))])])

\* Bitwise exclusive or of two bytes.
Xor(a, b) == (16 * XorNibble[a \div 16][b \div 16]) + XorNibble[a % 16][b % 16]

\* 1 << b, for a bit b of a byte.
BitMask(b) == <<1, 2, 4, 8, 16, 32, 64, 128>>[b + 1]

\* The byte string s with bit b (0..7) of byte i flipped: s[i] ^= (1 << b).
FlipBit(s, i, b) == [s EXCEPT ![i] = Xor(@, BitMask(b))]

\* Buffer.subarray(from) / subarray(from, to) with 0-based, end-exclusive
\* offsets clamped to the buffer, as Node does.
Subarray(s, from, to) ==
  LET lo == IF from > Len(s) THEN Len(s) ELSE from
      hi == IF to > Len(s) THEN Len(s) ELSE to
  IN  IF hi <= lo THEN <<>> ELSE SubSeq(s, lo + 1, hi)

\* Position-weighted checksum of a byte string; any single-bit change of a
\* byte changes it.
Weight(s) ==
  LET sum[i \in 0..Len(s)] == IF i = 0 THEN 0 ELSE sum[i - 1] + (i * s[i])
  IN  sum[Len(s)]

\* n as three and as four base-256 digits, most significant first.
Digits3(n) == <<(n \div 65536) % 256, (n \div 256) % 256, n % 256>>
Digits4(n) == <<(n \div 16777216) % 256>> \o Digits3(n)

\* ------------------------------------------------------------------ base64

B64Pad == 64
B64Junk == 65

\* buffer.toString("base64"): three bytes to four sextets, the last group
\* padded.
ToBase64(b) ==
  LET n == Len(b)
      B(j) == IF j <= n THEN b[j] ELSE 0
      Sym(k) ==
        LET i == (3 * ((k - 1) \div 4)) + 1
            pos == (k - 1) % 4
        IN  IF pos = 0 THEN B(i) \div 4
            ELSE IF pos = 1 THEN ((B(i) % 4) * 16) + (B(i + 1) \div 16)
            ELSE IF pos = 2 THEN
              IF i + 1 > n THEN B64Pad
              ELSE ((B(i + 1) % 16) * 4) + (B(i + 2) \div 64)
            ELSE IF i + 2 > n THEN B64Pad ELSE B(i + 2) % 64
  IN  Tuple([k \in 1 .. (4 * ((n + 2) \div 3)) |-> Sym(k)])

\* The sextets Node's decoder keeps: characters outside the alphabet are
\* skipped, and decoding stops at the first pad character.
B64Legal(t) ==
  LET pads == {i \in 1..Len(t) : t[i] = B64Pad}
      stop == IF pads = {} THEN Len(t) + 1
              ELSE CHOOSE i \in pads : \A j \in pads : i <= j
  IN  SelectSeq(SubSeq(t, 1, stop - 1), LAMBDA c : c < 64)

\* Four sextets to three bytes; a trailing group of two or three sextets
\* gives one or two bytes, a single trailing sextet none.
B64Bytes(q) ==
  LET n == Len(q)
      tail == IF n % 4 = 2 THEN 1 ELSE IF n % 4 = 3 THEN 2 ELSE 0
      Byte(k) ==
        LET i == (4 * ((k - 1) \div 3)) + 1
            pos == (k - 1) % 3
        IN  IF pos = 0 THEN (q[i] * 4) + (q[i + 1] \div 16)
            ELSE IF pos = 1 THEN ((q[i + 1] % 16) * 16) + (q[i + 2] \div 4)
            ELSE ((q[i + 2] % 4) * 64) + q[i + 3]
  IN  Tuple([k \in 1 .. ((3 * (n \div 4)) + tail) |-> Byte(k)])

\* Buffer.from(text, "base64"): never throws.
FromBase64(t) == B64Bytes(B64Legal(t))

\* ------------------------------------------------------------------- UTF-8

ReplacementChar == <<239, 191, 189>>

IsHighSurrogate(c) == c >= 55296 /\ c <= 56319
IsLowSurrogate(c) == c >= 56320 /\ c <= 57343

\* The bytes cipher.update(plaintext, "utf8") feeds the cipher: a surrogate
\* pair becomes one 4-byte sequence, an unpaired surrogate becomes U+FFFD.
\* enc[i] is the encoding of the string from its i-th code unit on.
Utf8Encode(s) ==
  LET enc[i \in 1 .. (Len(s) + 1)] ==
        IF i > Len(s) THEN <<>>
        ELSE LET c == s[i] IN
          IF c < 128 THEN <<c>> \o enc[i + 1]
          ELSE IF c < 2048 THEN
            <<192 + (c \div 64), 128 + (c % 64)>> \o enc[i + 1]
          ELSE IF IsHighSurrogate(c) /\ i < Len(s) /\ IsLowSurrogate(s[i + 1])
          THEN
            LET cp == 65536 + ((c - 55296) * 1024) + (s[i + 1] - 56320) IN
            << 240 + (cp \div 262144),
               128 + ((cp \div 4096) % 64),
               128 + ((cp \div 64) % 64),
               128 + (cp % 64) >> \o enc[i + 2]
          ELSE IF IsHighSurrogate(c) \/ IsLowSurrogate(c) THEN
            ReplacementChar \o enc[i + 1]
          ELSE
            << 224 + (c \div 4096),
               128 + ((c \div 64) % 64),
               128 + (c % 64) >> \o enc[i + 1]
  IN  enc[1]

\* The i-th byte exists and lies in lo..hi.
ContIn(b, i, lo, hi) == i <= Len(b) /\ b[i] >= lo /\ b[i] <= hi
IsCont(b, i) == ContIn(b, i, 128, 191)

\* buffer.toString("utf8"): a well-formed sequence decodes to its code
\* units; an ill-formed or truncated one gives one U+FFFD for the bytes
\* read before the fault.  dec[i] is the decoding from the i-th byte on.
Utf8Decode(b) ==
  LET dec[i \in 1 .. (Len(b) + 1)] ==
        IF i > Len(b) THEN <<>>
        ELSE LET c == b[i] IN
          IF c < 128 THEN <<c>> \o dec[i + 1]
          ELSE IF c >= 194 /\ c <= 223 THEN
            IF ~IsCont(b, i + 1) THEN <<65533>> \o dec[i + 1]
            ELSE <<((c - 192) * 64) + (b[i + 1] - 128)>> \o dec[i + 2]
          ELSE IF c >= 224 /\ c <= 239 THEN
            IF ~ContIn(b, i + 1, IF c = 224 THEN 160 ELSE 128,
                                 IF c = 237 THEN 159 ELSE 191)
            THEN <<65533>> \o dec[i + 1]
            ELSE IF ~IsCont(b, i + 2) THEN <<65533>> \o dec[i + 2]
            ELSE <<((c - 224) * 4096) + ((b[i + 1] - 128) * 64)
                   + (b[i + 2] - 128)>> \o dec[i + 3]
          ELSE IF c >= 240 /\ c <= 244 THEN
            IF ~ContIn(b, i + 1, IF c = 240 THEN 144 ELSE 128,
                                 IF c = 244 THEN 143 ELSE 191)
            THEN <<65533>> \o dec[i + 1]
            ELSE IF ~IsCont(b, i + 2) THEN <<65533>> \o dec[i + 2]
            ELSE IF ~IsCont(b, i + 3) THEN <<65533>> \o dec[i + 3]
            ELSE
              LET cp == ((c - 240) * 262144) + ((b[i + 1] - 128) * 4096)
                        + ((b[i + 2] - 128) * 64) + (b[i + 3] - 128) IN
              << 55296 + ((cp - 65536) \div 1024),
                 56320 + ((cp - 65536) % 1024) >> \o dec[i + 4]
          ELSE <<65533>> \o dec[i + 1]
  IN  dec[1]

\* A JavaScript string with no unpaired surrogate: every high surrogate is
\* followed by a low one, every low surrogate preceded by a high one.
WellFormed(s) ==
  \A i \in 1..Len(s) :
    /\ IsHighSurrogate(s[i]) => (i < Len(s) /\ IsLowSurrogate(s[i + 1]))
    /\ IsLowSurrogate(s[i]) => (i > 1 /\ IsHighSurrogate(s[i - 1]))

\* ------------------------------------------------- results and randomness

\* A call's outcome: the value returned, or the error thrown; work lists the
\* cryptographic primitives the call reached before it ended.
Ok(v, w) == [ok |-> TRUE, err |-> "", val |-> v, work |-> w]
Throw(e, w) == [ok |-> FALSE, err |-> e, val |-> <<>>, work |-> w]

\* The outcomes of the secure random source, by index.
Rand == 0 .. (NumRand - 1)

\* randomBytes(n): the r-th outcome.
randomBytes(n, r) == Tuple([i \in 1..n |-> ((r * 16) + i) % 256])

\* ------------------------------------------------------------- AES-256-GCM
\* The cipher is the library's.  It is modelled as an ideal AEAD: a stream
\* cipher whose key stream is a function of key and nonce, and a 16-byte tag
\* that is a function of key, nonce and ciphertext and separates any two
\* triples the bounded model can build, so a tag verifies only for the key,
\* nonce and ciphertext it was computed for.  The tag starts with four bytes
\* that mix all three, so the same holds of every leading part of it that
\* setAuthTag accepts.

KeyStream(key, iv, n) ==
  LET base == Weight(key) + (3 * Weight(iv))
  IN  Tuple([j \in 1..n |-> (base + (7 * j)) % 256])

XorBytes(a, ks) == Tuple([j \in 1..Len(a) |-> Xor(a[j], ks[j])])

\* cipher.getAuthTag()
GcmTag(key, iv, ct) ==
  LET wk == Weight(key)
      wi == Weight(iv)
      wc == Weight(ct)
      mix == (31 * wk) + (1009 * wi) + (7919 * wc) + (3 * Len(iv)) + Len(ct)
  IN  Digits4(mix) \o Digits3(wk) \o Digits3(wi) \o Digits3(wc)
        \o <<Len(iv) % 256, Len(ct) \div 256, Len(ct) % 256>>

\* Tag lengths decipher.setAuthTag accepts for GCM.
TagLengths == {4, 8, 12, 13, 14, 15, 16}

\* createCipheriv + update + final + getAuthTag
GcmSeal(key, iv, pt) ==
  LET ct == XorBytes(pt, KeyStream(key, iv, Len(pt)))
  IN  [ct |-> ct, tag |-> GcmTag(key, iv, ct)]

\* createDecipheriv + setAuthTag + update + final: the plaintext bytes, or
\* the error the library throws.
GcmOpen(key, iv, authTag, ct) ==
  IF Len(key) # KEY_LENGTH \/ Len(iv) = 0 THEN
    Throw("DecryptionError", <<"createDecipheriv">>)
  ELSE IF Len(authTag) \notin TagLengths THEN
    Throw("DecryptionError", <<"createDecipheriv", "setAuthTag">>)
  ELSE IF authTag # SubSeq(GcmTag(key, iv, ct), 1, Len(authTag)) THEN
    Throw("DecryptionError", <<"createDecipheriv", "setAuthTag", "final">>)
  ELSE
    Ok(XorBytes(ct, KeyStream(key, iv, Len(ct))),
       <<"createDecipheriv", "setAuthTag", "final">>)

\* ------------------------------------------------------------- Key Manager

\* process.env.ENCRYPTION_MASTER_KEY: unset, or a text.
EnvUnset == [set |-> FALSE, text |-> <<>>]
EnvText(t) == [set |-> TRUE, text |-> t]

getMasterKey(masterKeyEnv) ==
  IF ~masterKeyEnv.set \/ masterKeyEnv.text = <<>> THEN Throw("ConfigurationError", <<>>)
  ELSE LET key == FromBase64(masterKeyEnv.text) IN
    IF Len(key) # KEY_LENGTH THEN Throw("ConfigurationError", <<>>)
    ELSE Ok(key, <<>>)

generateDataKey(r) == randomBytes(KEY_LENGTH, r)

\* Mutant: the nonce is drawn before the master key is read.
wrapDataKeyLateCheck(masterKeyEnv, dataKey, r) ==
  LET iv == randomBytes(IV_LENGTH, r)
      masterKey == getMasterKey(masterKeyEnv)
  IN  IF ~masterKey.ok THEN Throw(masterKey.err, <<"randomBytes">>)
      ELSE LET cipher == GcmSeal(masterKey.val, iv, dataKey)
               result == iv \o cipher.tag \o cipher.ct
           IN  Ok(ToBase64(result), <<"randomBytes", "createCipheriv">>)

\* Mutant: the buffer is laid out as iv, encrypted, authTag.
wrapDataKeyTagLast(masterKeyEnv, dataKey, r) ==
  LET masterKey == getMasterKey(masterKeyEnv) IN
  IF ~masterKey.ok THEN Throw(masterKey.err, <<>>)
  ELSE LET iv == randomBytes(IV_LENGTH, r)
           cipher == GcmSeal(masterKey.val, iv, dataKey)
           result == iv \o cipher.ct \o cipher.tag
       IN  Ok(ToBase64(result), <<"randomBytes", "createCipheriv">>)

\* wrapDataKey(dataKey), with r the outcome of its randomBytes call.
wrapDataKey(masterKeyEnv, dataKey, r) ==
  LET masterKey == getMasterKey(masterKeyEnv) IN
  IF ~masterKey.ok THEN Throw(masterKey.err, <<>>)
  ELSE LET iv == randomBytes(IV_LENGTH, r)
           cipher == GcmSeal(masterKey.val, iv, dataKey)
           result == iv \o cipher.tag \o cipher.ct
       IN  Ok(ToBase64(result), <<"randomBytes", "createCipheriv">>)

\* Mutant: the decoded buffer is split as authTag, iv, ciphertext.
unwrapDataKeyTagFirst(masterKeyEnv, wrappedKey) ==
  LET masterKey == getMasterKey(masterKeyEnv) IN
  IF ~masterKey.ok THEN Throw(masterKey.err, <<>>)
  ELSE LET data == FromBase64(wrappedKey)
           authTag == Subarray(data, 0, AUTH_TAG_LENGTH)
           iv == Subarray(data, AUTH_TAG_LENGTH, AUTH_TAG_LENGTH + IV_LENGTH)
           encrypted == Subarray(data, IV_LENGTH + AUTH_TAG_LENGTH, Len(data))
       IN  GcmOpen(masterKey.val, iv, authTag, encrypted)

\* unwrapDataKey(wrappedKey)
unwrapDataKey(masterKeyEnv, wrappedKey) ==
  LET masterKey == getMasterKey(masterKeyEnv) IN
  IF ~masterKey.ok THEN Throw(masterKey.err, <<>>)
  ELSE LET data == FromBase64(wrappedKey)
           iv == Subarray(data, 0, IV_LENGTH)
           authTag == Subarray(data, IV_LENGTH, IV_LENGTH + AUTH_TAG_LENGTH)
           encrypted == Subarray(data, IV_LENGTH + AUTH_TAG_LENGTH, Len(data))
       IN  GcmOpen(masterKey.val, iv, authTag, encrypted)

\* Mutant: the data key is wrapped again under the configured master key
\* (wrapDataKey) instead of the new one.
reWrapUnderCurrentKey(masterKeyEnv, wrappedKey, newMasterKeyBase64, r) ==
  LET dataKey == unwrapDataKey(masterKeyEnv, wrappedKey) IN
  IF ~dataKey.ok THEN dataKey
  ELSE LET newMasterKey == FromBase64(newMasterKeyBase64) IN
    IF Len(newMasterKey) # KEY_LENGTH THEN
      Throw("ConfigurationError", dataKey.work)
    ELSE LET wrapped == wrapDataKey(masterKeyEnv, dataKey.val, r)
         IN  Ok(wrapped.val, dataKey.work \o wrapped.work)

\* Mutant: a new master key of another length is cut or padded to 32 bytes
\* instead of being refused.
reWrapFittingNewKey(masterKeyEnv, wrappedKey, newMasterKeyBase64, r) ==
  LET dataKey == unwrapDataKey(masterKeyEnv, wrappedKey) IN
  IF ~dataKey.ok THEN dataKey
  ELSE LET decoded == FromBase64(newMasterKeyBase64)
           newMasterKey == Tuple([i \in 1..KEY_LENGTH |->
                                    IF i <= Len(decoded) THEN decoded[i]
                                    ELSE 0])
           iv == randomBytes(IV_LENGTH, r)
           cipher == GcmSeal(newMasterKey, iv, dataKey.val)
           result == iv \o cipher.tag \o cipher.ct
       IN  Ok(ToBase64(result),
              dataKey.work \o <<"randomBytes", "createCipheriv">>)

\* Mutant: a wrapped key that does not unwrap under the configured master
\* key is tried under the new one, and wrapped afresh when that succeeds.
reWrapTryingNewKey(masterKeyEnv, wrappedKey, newMasterKeyBase64, r) ==
  LET current == unwrapDataKey(masterKeyEnv, wrappedKey)
      dataKey == IF current.ok THEN current
                 ELSE unwrapDataKey(EnvText(newMasterKeyBase64), wrappedKey)
  IN
  IF ~dataKey.ok THEN dataKey
  ELSE LET newMasterKey == FromBase64(newMasterKeyBase64) IN
    IF Len(newMasterKey) # KEY_LENGTH THEN
      Throw("ConfigurationError", dataKey.work)
    ELSE LET iv == randomBytes(IV_LENGTH, r)
             cipher == GcmSeal(newMasterKey, iv, dataKey.val)
             result == iv \o cipher.tag \o cipher.ct
         IN  Ok(ToBase64(result),
                dataKey.work \o <<"randomBytes", "createCipheriv">>)

\* reWrapDataKey(wrappedKey, newMasterKeyBase64)
reWrapDataKey(masterKeyEnv, wrappedKey, newMasterKeyBase64, r) ==
  LET dataKey == unwrapDataKey(masterKeyEnv, wrappedKey) IN
  IF ~dataKey.ok THEN dataKey
  ELSE LET newMasterKey == FromBase64(newMasterKeyBase64) IN
    IF Len(newMasterKey) # KEY_LENGTH THEN
      Throw("ConfigurationError", dataKey.work)
    ELSE LET iv == randomBytes(IV_LENGTH, r)
             cipher == GcmSeal(newMasterKey, iv, dataKey.val)
             result == iv \o cipher.tag \o cipher.ct
         IN  Ok(ToBase64(result),
                dataKey.work \o <<"randomBytes", "createCipheriv">>)

\* ------------------------------------------------------ Authenticated Cipher

\* Mutant: the nonce is a zero-filled buffer (Buffer.alloc) instead of a
\* random draw.
encryptFixedIv(plaintext, dataKey, r) ==
  LET iv == Tuple([i \in 1..IV_LENGTH |-> 0]) IN
  IF Len(dataKey) # KEY_LENGTH THEN
    Throw("CipherError", <<"createCipheriv">>)
  ELSE LET cipher == GcmSeal(dataKey, iv, Utf8Encode(plaintext))
       IN  Ok([ciphertext |-> ToBase64(cipher.ct),
               iv |-> ToBase64(iv),
               authTag |-> ToBase64(cipher.tag)],
              <<"createCipheriv">>)

\* encrypt(plaintext, dataKey), with r the outcome of its randomBytes call.
encrypt(plaintext, dataKey, r) ==
  LET iv == randomBytes(IV_LENGTH, r) IN
  IF Len(dataKey) # KEY_LENGTH THEN
    Throw("CipherError", <<"randomBytes", "createCipheriv">>)
  ELSE LET cipher == GcmSeal(dataKey, iv, Utf8Encode(plaintext))
       IN  Ok([ciphertext |-> ToBase64(cipher.ct),
               iv |-> ToBase64(iv),
               authTag |-> ToBase64(cipher.tag)],
              <<"randomBytes", "createCipheriv">>)

\* Mutant: the deciphered bytes are returned one code unit per byte (a
\* "latin1" output encoding instead of "utf8").
decryptRawBytes(encryptedData, dataKey) ==
  LET decipher == GcmOpen(dataKey, FromBase64(encryptedData.iv),
                          FromBase64(encryptedData.authTag),
                          FromBase64(encryptedData.ciphertext))
  IN  decipher

\* Mutant: a failure of decipher.final() is caught and the text deciphered
\* so far is returned.
decryptBestEffort(encryptedData, dataKey) ==
  LET iv == FromBase64(encryptedData.iv)
      ciphertext == FromBase64(encryptedData.ciphertext)
      decipher == GcmOpen(dataKey, iv, FromBase64(encryptedData.authTag),
                          ciphertext)
  IN  IF decipher.ok THEN Ok(Utf8Decode(decipher.val), decipher.work)
      ELSE IF Len(dataKey) # KEY_LENGTH \/ Len(iv) = 0 THEN decipher
      ELSE Ok(Utf8Decode(XorBytes(ciphertext,
                                  KeyStream(dataKey, iv, Len(ciphertext)))),
              decipher.work)

\* Mutant: a failure is caught and the empty text returned.
decryptSwallowingError(encryptedData, dataKey) ==
  LET decipher == GcmOpen(dataKey, FromBase64(encryptedData.iv),
                          FromBase64(encryptedData.authTag),
                          FromBase64(encryptedData.ciphertext))
  IN  IF decipher.ok THEN Ok(Utf8Decode(decipher.val), decipher.work)
      ELSE Ok(<<>>, decipher.work)

\* Mutant: a key of another length is cut or padded to 32 bytes.
decryptFittingKey(encryptedData, dataKey) ==
  LET fitted == Tuple([i \in 1..KEY_LENGTH |->
                         IF i <= Len(dataKey) THEN dataKey[i] ELSE 0])
      decipher == GcmOpen(fitted, FromBase64(encryptedData.iv),
                          FromBase64(encryptedData.authTag),
                          FromBase64(encryptedData.ciphertext))
  IN  IF ~decipher.ok THEN decipher
      ELSE Ok(Utf8Decode(decipher.val), decipher.work)

\* decrypt(encryptedData, dataKey)
decrypt(encryptedData, dataKey) ==
  LET iv == FromBase64(encryptedData.iv)
      authTag == FromBase64(encryptedData.authTag)
      ciphertext == FromBase64(encryptedData.ciphertext)
      decipher == GcmOpen(dataKey, iv, authTag, ciphertext)
  IN  IF ~decipher.ok THEN decipher
      ELSE Ok(Utf8Decode(decipher.val), decipher.work)

\* ------------------------------------------------------------------- state

VARIABLES
  env,        \* process.env.ENCRYPTION_MASTER_KEY
  user_keys,  \* the user_keys table: a sequence of rows
  calls,      \* the getOrCreateUserDataKey invocations, by call id
  sealed,     \* the encrypt call that produced the envelope
  held,       \* the envelope as it is stored, and the bit altered in it
  opened,     \* the decrypt call on the stored envelope
  stored,     \* the wrapped data key a caller of the key manager holds
  kcall,      \* the last call of the key manager or the cipher
  first,      \* the first of two encrypt calls under one key
  second,     \* the second of them
  entries,    \* the entries table: a sequence of rows
  requests,   \* the transcripts users have had ingested, by entry id
  response,   \* the last response of a route handler
  storage,    \* the paths of the objects in the journal-audio bucket
  audio_assets, \* the audio_assets table: a set of rows
  rotation    \* how far the rotation of the master key has got

provVars == <<env, user_keys, calls>>
cipherVars == <<sealed, held, opened>>
keyVars == <<stored, kcall, rotation>>
nonceVars == <<first, second>>
routeVars == <<entries, requests, response, storage, audio_assets>>

Users == 1 .. NumUsers
CallIds == 1 .. NumCalls

\* Master keys an operator may configure: 32 bytes of 0x01, 32 bytes of 0x02.
MasterKeyBytes(m) == Tuple([i \in 1..KEY_LENGTH |-> m])
ValidEnvs == {EnvText(ToBase64(MasterKeyBytes(m))) : m \in {1, 2}}

\* Every value of the environment variable the model uses.
Envs == ValidEnvs

\* wrapDataKey(generateDataKey(rk)) and unwrapDataKey, tabulated once over
\* the environments, random outcomes and wrapped keys of the model; a value
\* outside the table is computed.
WrapTable ==
  Table([e \in Envs |-> Table([rk \in Rand |-> Table([rw \in Rand |->
    wrapDataKey(e, generateDataKey(rk), rw)])])])

WrappedKeys ==
  {WrapTable[e][rk][rw].val : e \in ValidEnvs, rk \in Rand, rw \in Rand}

UnwrapTable ==
  Table([e \in Envs |-> Table([w \in WrappedKeys |-> unwrapDataKey(e, w)])])

Wrapped(e, rk, rw) ==
  IF e \in Envs THEN WrapTable[e][rk][rw]
  ELSE wrapDataKey(e, generateDataKey(rk), rw)

Unwrapped(e, w) ==
  IF e \in Envs /\ w \in WrappedKeys THEN UnwrapTable[e][w]
  ELSE unwrapDataKey(e, w)

NoResult == [ok |-> FALSE, err |-> "pending", val |-> <<>>, work |-> <<>>]

IdleCall ==
  [pc |-> "idle", userId |-> 0, dataKey |-> <<>>, wrappedKey |-> <<>>,
   path |-> "", result |-> NoResult,
   lookups |-> 0, inserts |-> 0, generated |-> 0,
   existingKey |-> FALSE, insertError |-> FALSE, retryKey |-> FALSE]

\* No encrypt call yet, no envelope, no decrypt call yet.
NoSealed == [plaintext |-> <<>>, dataKey |-> <<>>, r |-> 0, result |-> NoResult]
NoEnvelope == [ciphertext |-> <<>>, iv |-> <<>>, authTag |-> <<>>]
NoHeld == [data |-> NoEnvelope, altered |-> "", byte |-> 0, bit |-> 0]
NoOpened == [dataKey |-> <<>>, result |-> NoResult]

\* No call of the key manager yet.
NoCall ==
  [op |-> "", masterKeyEnv |-> EnvUnset, input |-> <<>>, dataKey |-> <<>>,
   newMasterKeyBase64 |-> <<>>, result |-> NoResult]

\* No wrapped key held.  dataKey and masterKeyEnv record what the held key
\* wraps and the configuration it was wrapped for.
NoStored ==
  [wrapped_data_key |-> <<>>, dataKey |-> <<>>, masterKeyEnv |-> EnvUnset,
   previousEnv |-> EnvUnset, origin |-> ""]

CipherIdle == sealed = NoSealed /\ held = NoHeld /\ opened = NoOpened
\* No rotation of the master key is under way.
NoRotation == [pc |-> "idle", next |-> 1, newMasterKeyBase64 |-> <<>>]

KeysIdle == stored = NoStored /\ kcall = NoCall /\ rotation = NoRotation
NonceIdle == first = NoSealed /\ second = NoSealed
NoResponse ==
  [route |-> "", userId |-> 0, status |-> 0, error |-> "", body |-> <<>>]
RoutesIdle ==
  /\ entries = <<>> /\ requests = <<>> /\ response = NoResponse
  /\ storage = {} /\ audio_assets = {}

\* ------------------------------------------------------- the user_keys table

\* .from("user_keys").select("wrapped_data_key").eq("user_id", u).single():
\* the row when exactly one matches, otherwise no data and an error.
SelectSingle(table, u) ==
  LET hits == {i \in 1..Len(table) : table[i].user_id = u} IN
  IF Cardinality(hits) = 1
  THEN [found |-> TRUE,
        wrapped_data_key |-> table[CHOOSE i \in hits : TRUE].wrapped_data_key,
        error |-> FALSE]
  ELSE [found |-> FALSE, wrapped_data_key |-> <<>>, error |-> TRUE]

\* Mutant: an insert that overwrites the user's existing row (an upsert).
InsertRowUpsert(table, u, w) ==
  IF \E i \in 1..Len(table) : table[i].user_id = u
  THEN [table |-> [i \in 1..Len(table) |->
                     IF table[i].user_id = u
                     THEN [user_id |-> u, wrapped_data_key |-> w]
                     ELSE table[i]],
        error |-> FALSE]
  ELSE [table |-> Append(table, [user_id |-> u, wrapped_data_key |-> w]),
        error |-> FALSE]

\* .insert({user_id, wrapped_data_key}): user_id is UNIQUE, so a second row
\* for the user is refused with an error and the table is left as it was.
InsertRow(table, u, w) ==
  IF \E i \in 1..Len(table) : table[i].user_id = u
  THEN [table |-> table, error |-> TRUE]
  ELSE [table |-> Append(table, [user_id |-> u, wrapped_data_key |-> w]),
        error |-> FALSE]

\* ------------------------------------------------- getOrCreateUserDataKey
\* One action per stretch of the function between two awaits.

\* The invocation record once the function has returned or thrown res.
Done(call, how, res) ==
  [call EXCEPT !.pc = IF res.ok THEN "returned" ELSE "threw",
               !.path = how,
               !.result = res]

\* A request calls getOrCreateUserDataKey(u, supabase) and issues the lookup.
Invoke(c, u) ==
  /\ calls[c].pc = "idle"
  /\ calls' = [calls EXCEPT ![c].pc = "lookup", ![c].userId = u]
  /\ UNCHANGED <<env, user_keys, cipherVars, keyVars, nonceVars, routeVars>>

\* Mutant: the raw data key is what is sent to the table.
LookupStoringRawKey(c, existingKey) ==
  /\ calls[c].pc = "lookup"
  /\ IF existingKey.found /\ ~existingKey.error THEN
       calls' = [calls EXCEPT ![c] =
                   Done([@ EXCEPT !.lookups = @ + 1, !.existingKey = TRUE],
                        "existing",
                        Unwrapped(env, existingKey.wrapped_data_key))]
     ELSE
       \E rk \in Rand, rw \in Rand :
         LET dataKey == generateDataKey(rk)
             wrappedKey == Wrapped(env, rk, rw)
         IN  IF ~wrappedKey.ok
             THEN calls' = [calls EXCEPT ![c] =
                     Done([@ EXCEPT !.lookups = @ + 1, !.generated = @ + 1],
                          "create", wrappedKey)]
             ELSE calls' = [calls EXCEPT ![c].pc = "insert",
                                         ![c].lookups = @ + 1,
                                         ![c].generated = @ + 1,
                                         ![c].dataKey = dataKey,
                                         ![c].wrappedKey = ToBase64(dataKey)]
  /\ UNCHANGED <<env, user_keys, cipherVars, keyVars, nonceVars, routeVars>>

\* Mutant: a lookup that finds a row whose key does not unwrap generates a
\* new key instead of failing.
LookupRegenerating(c, existingKey) ==
  /\ calls[c].pc = "lookup"
  /\ IF /\ existingKey.found /\ ~existingKey.error
        /\ Unwrapped(env, existingKey.wrapped_data_key).ok THEN
       calls' = [calls EXCEPT ![c] =
                   Done([@ EXCEPT !.lookups = @ + 1, !.existingKey = TRUE],
                        "existing",
                        Unwrapped(env, existingKey.wrapped_data_key))]
     ELSE
       \E rk \in Rand, rw \in Rand :
         LET dataKey == generateDataKey(rk)
             wrappedKey == Wrapped(env, rk, rw)
         IN  IF ~wrappedKey.ok
             THEN calls' = [calls EXCEPT ![c] =
                     Done([@ EXCEPT !.lookups = @ + 1, !.generated = @ + 1,
                                    !.existingKey = existingKey.found
                                                      /\ ~existingKey.error],
                          "create", wrappedKey)]
             ELSE calls' = [calls EXCEPT ![c].pc = "insert",
                                         ![c].lookups = @ + 1,
                                         ![c].generated = @ + 1,
                                         ![c].existingKey =
                                            existingKey.found
                                              /\ ~existingKey.error,
                                         ![c].dataKey = dataKey,
                                         ![c].wrappedKey = wrappedKey.val]
  /\ UNCHANGED <<env, user_keys, cipherVars, keyVars, nonceVars, routeVars>>

\* Mutant: a failure of wrapDataKey is swallowed and the insert is issued
\* with what there is.
LookupSwallowingWrapError(c, existingKey) ==
  /\ calls[c].pc = "lookup"
  /\ IF existingKey.found /\ ~existingKey.error THEN
       calls' = [calls EXCEPT ![c] =
                   Done([@ EXCEPT !.lookups = @ + 1, !.existingKey = TRUE],
                        "existing",
                        Unwrapped(env, existingKey.wrapped_data_key))]
     ELSE
       \E rk \in Rand, rw \in Rand :
         LET dataKey == generateDataKey(rk)
             wrappedKey == Wrapped(env, rk, rw)
         IN  calls' = [calls EXCEPT ![c].pc = "insert",
                                    ![c].lookups = @ + 1,
                                    ![c].generated = @ + 1,
                                    ![c].dataKey = dataKey,
                                    ![c].wrappedKey = wrappedKey.val]
  /\ UNCHANGED <<env, user_keys, cipherVars, keyVars, nonceVars, routeVars>>

\* The lookup answers existingKey; an existing key is unwrapped and
\* returned, otherwise a data key is generated and wrapped and the insert is
\* issued.
LookupAnswered(c, existingKey) ==
  /\ calls[c].pc = "lookup"
  /\ IF existingKey.found /\ ~existingKey.error THEN
       calls' = [calls EXCEPT ![c] =
                   Done([@ EXCEPT !.lookups = @ + 1, !.existingKey = TRUE],
                        "existing",
                        Unwrapped(env, existingKey.wrapped_data_key))]
     ELSE
       \E rk \in Rand, rw \in Rand :
         LET dataKey == generateDataKey(rk)
             wrappedKey == Wrapped(env, rk, rw)
         IN  IF ~wrappedKey.ok
             THEN calls' = [calls EXCEPT ![c] =
                     Done([@ EXCEPT !.lookups = @ + 1, !.generated = @ + 1],
                          "create", wrappedKey)]
             ELSE calls' = [calls EXCEPT ![c].pc = "insert",
                                         ![c].lookups = @ + 1,
                                         ![c].generated = @ + 1,
                                         ![c].dataKey = dataKey,
                                         ![c].wrappedKey = wrappedKey.val]
  /\ UNCHANGED <<env, user_keys, cipherVars, keyVars, nonceVars, routeVars>>

\* The lookup is answered from the table.
Lookup(c) == LookupAnswered(c, SelectSingle(user_keys, calls[c].userId))

\* Mutant: the bytes of the wrapped key are returned after the insert.
InsertReturningWrappedKey(c, ins) ==
  /\ calls[c].pc = "insert"
  /\ user_keys' = ins.table
  /\ IF ins.error
     THEN calls' = [calls EXCEPT ![c].pc = "retry", ![c].inserts = @ + 1,
                                 ![c].insertError = TRUE]
     ELSE calls' = [calls EXCEPT ![c] =
                      Done([@ EXCEPT !.inserts = @ + 1], "created",
                           Ok(FromBase64(calls[c].wrappedKey), <<>>))]
  /\ UNCHANGED <<env, cipherVars, keyVars, nonceVars, routeVars>>

\* Mutant: a failed insert is attempted again.
InsertRetrying(c, ins) ==
  /\ calls[c].pc = "insert"
  /\ user_keys' = ins.table
  /\ IF ins.error
     THEN calls' = [calls EXCEPT ![c].pc =
                                   IF calls[c].inserts = 0 THEN "insert"
                                   ELSE "retry",
                                 ![c].inserts = @ + 1,
                                 ![c].insertError = TRUE]
     ELSE calls' = [calls EXCEPT ![c] =
                      Done([@ EXCEPT !.inserts = @ + 1], "created",
                           Ok(calls[c].dataKey, <<>>))]
  /\ UNCHANGED <<env, cipherVars, keyVars, nonceVars, routeVars>>

\* The insert answers ins (the table after it, and whether it reported an
\* error); on success the generated key is returned, on an error the re-read
\* is issued.
InsertAnswered(c, ins) ==
  /\ calls[c].pc = "insert"
  /\ user_keys' = ins.table
  /\ IF ins.error
     THEN calls' = [calls EXCEPT ![c].pc = "retry", ![c].inserts = @ + 1,
                                 ![c].insertError = TRUE]
     ELSE calls' = [calls EXCEPT ![c] =
                      Done([@ EXCEPT !.inserts = @ + 1], "created",
                           Ok(calls[c].dataKey, <<>>))]
  /\ UNCHANGED <<env, cipherVars, keyVars, nonceVars, routeVars>>

\* Mutant: the insert's error is ignored and the generated key returned.
InsertIgnoringError(c) ==
  /\ calls[c].pc = "insert"
  /\ LET ins == InsertRow(user_keys, calls[c].userId, calls[c].wrappedKey) IN
     /\ user_keys' = ins.table
     /\ calls' = [calls EXCEPT ![c] =
                    Done([@ EXCEPT !.inserts = @ + 1,
                                   !.insertError = ins.error],
                         IF ins.error THEN "race" ELSE "created",
                         Ok(calls[c].dataKey, <<>>))]
  /\ UNCHANGED <<env, cipherVars, keyVars, nonceVars, routeVars>>

\* The insert is answered by the table.
Insert(c) ==
  InsertAnswered(c, InsertRow(user_keys, calls[c].userId, calls[c].wrappedKey))

\* Mutant: when the re-read finds nothing the generated key is returned.
RetryFallingBack(c, retryKey) ==
  /\ calls[c].pc = "retry"
  /\ calls' = [calls EXCEPT ![c] =
       Done([@ EXCEPT !.lookups = @ + 1, !.retryKey = retryKey.found],
            "race",
            IF retryKey.found
            THEN Unwrapped(env, retryKey.wrapped_data_key)
            ELSE Ok(calls[c].dataKey, <<>>))]
  /\ UNCHANGED <<env, user_keys, cipherVars, keyVars, nonceVars, routeVars>>

\* The re-read answers retryKey; the stored key is unwrapped and returned,
\* or the call fails.
RetryAnswered(c, retryKey) ==
  /\ calls[c].pc = "retry"
  /\ calls' = [calls EXCEPT ![c] =
       Done([@ EXCEPT !.lookups = @ + 1, !.retryKey = retryKey.found],
            "race",
            IF retryKey.found
            THEN Unwrapped(env, retryKey.wrapped_data_key)
            ELSE Throw("KeyProvisioningError", <<>>))]
  /\ UNCHANGED <<env, user_keys, cipherVars, keyVars, nonceVars, routeVars>>

\* Mutant: after the re-read the invocation returns the key it generated.
RetryReturningOwnKey(c) ==
  /\ calls[c].pc = "retry"
  /\ LET retryKey == SelectSingle(user_keys, calls[c].userId) IN
     calls' = [calls EXCEPT ![c] =
       Done([@ EXCEPT !.lookups = @ + 1, !.retryKey = retryKey.found],
            "race",
            IF retryKey.found THEN Ok(calls[c].dataKey, <<>>)
            ELSE Throw("KeyProvisioningError", <<>>))]
  /\ UNCHANGED <<env, user_keys, cipherVars, keyVars, nonceVars, routeVars>>

\* Mutant: the re-read is answered without a row whatever the table holds.
RetryFindingNothing(c) ==
  RetryAnswered(c, [found |-> FALSE, wrapped_data_key |-> <<>>,
                    error |-> TRUE])

\* The re-read is answered from the table.
Retry(c) == RetryAnswered(c, SelectSingle(user_keys, calls[c].userId))

ProvInit ==
  /\ env \in ValidEnvs
  /\ user_keys = <<>>
  /\ calls = [c \in CallIds |-> IdleCall]
  /\ CipherIdle /\ KeysIdle /\ NonceIdle /\ RoutesIdle

Init == ProvInit

Next ==
  \/ \E c \in CallIds, u \in Users : Invoke(c, u)
  \/ \E c \in CallIds : Lookup(c)
  \/ \E c \in CallIds : Insert(c)
  \/ \E c \in CallIds : Retry(c)

vars == <<env, user_keys, calls, sealed, held, opened, stored, kcall,
          first, second, entries, requests, response, storage, audio_assets,
          rotation>>

Spec == Init /\ [][Next]_vars

\* ------------------------------------------------ provisioning: properties

RowsOf(table, u) == {i \in 1..Len(table) : table[i].user_id = u}
Finished(c) == calls[c].pc \in {"returned", "threw"}
InFlight(c) == calls[c].pc \in {"lookup", "insert", "retry"}
CallsFor(u) == {c \in CallIds : calls[c].pc # "idle" /\ calls[c].userId = u}

\* C1: when every invocation of getOrCreateUserDataKey for a user who had no
\* row has finished, however their lookups, inserts and re-reads interleaved,
\* the table holds exactly one row for the user and all of them returned the
\* same raw data key.
C1_ProvisioningIdempotentUnderRace ==
  \A u \in Users :
    (CallsFor(u) # {} /\ \A c \in CallsFor(u) : Finished(c)) =>
      /\ Cardinality(RowsOf(user_keys, u)) = 1
      /\ \A c \in CallsFor(u) : calls[c].pc = "returned"
      /\ \A c, d \in CallsFor(u) : calls[c].result.val = calls[d].result.val

\* Two invocations for one user raced: one inserted, the other lost the
\* insert and re-read, and both have returned.
C1_Witness ==
  \E c, d \in CallIds :
    /\ calls[c].userId = calls[d].userId
    /\ calls[c].pc = "returned" /\ calls[c].path = "created"
    /\ calls[d].pc = "returned" /\ calls[d].path = "race"
    /\ calls[d].dataKey # calls[c].dataKey

\* C2: the table never holds two rows for a user, and no step changes,
\* replaces or removes a user's row once it exists.
C2_OneAuthoritativeKey ==
  [][\A u \in Users :
       /\ Cardinality(RowsOf(user_keys', u)) <= 1
       /\ RowsOf(user_keys, u) # {} =>
            /\ RowsOf(user_keys', u) = RowsOf(user_keys, u)
            /\ \A i \in RowsOf(user_keys, u) : user_keys'[i] = user_keys[i]]_vars

\* A user's row exists while another invocation for that user, which found
\* no row and wrapped a different key, is about to insert.
C2_Witness ==
  \E c \in CallIds :
    /\ calls[c].pc = "insert"
    /\ \E i \in RowsOf(user_keys, calls[c].userId) :
         user_keys[i].wrapped_data_key # calls[c].wrappedKey

\* The invocation whose insert created the row of user u.
Winners(u) ==
  {w \in CallIds : calls[w].path = "created" /\ calls[w].userId = u}

RaceLoserAdopts ==
  \A c \in CallIds :
    (Finished(c) /\ calls[c].path = "race") =>
      /\ calls[c].pc = "returned"
      /\ \E w \in Winners(calls[c].userId) :
           /\ calls[c].result.val = calls[w].dataKey
           /\ \A i \in RowsOf(user_keys, calls[c].userId) :
                user_keys[i].wrapped_data_key = calls[w].wrappedKey

\* C10: an invocation whose insert is refused because the user already has a
\* row writes nothing to the table, re-reads, and returns the key of the
\* stored row (the one the inserting invocation generated), not its own.
C10_RaceLoserAdoptsWinner ==
  [][/\ \A c \in CallIds :
          (calls[c].pc = "insert" /\ calls'[c].pc = "retry") =>
            user_keys' = user_keys
     /\ RaceLoserAdopts']_vars

\* A race loser has returned a key that differs from the one it generated,
\* and its own wrapped key is not in the table.
C10_Witness ==
  \E c \in CallIds :
    /\ calls[c].pc = "returned" /\ calls[c].path = "race"
    /\ calls[c].result.val # calls[c].dataKey
    /\ \A i \in 1..Len(user_keys) :
         user_keys[i].wrapped_data_key # calls[c].wrappedKey

\* The row an invocation's insert stored for its user.
OwnRows(c) ==
  {i \in RowsOf(user_keys, calls[c].userId) :
     user_keys[i].wrapped_data_key = calls[c].wrappedKey}

\* C11: an invocation whose lookup found no row and whose insert succeeded
\* returns the raw data key it generated, having issued no second lookup, and
\* that key is what the row it stored unwraps to.
C11_CreatedKeyIsStoredKey ==
  \A c \in CallIds :
    (Finished(c) /\ calls[c].path = "created") =>
      /\ calls[c].pc = "returned"
      /\ calls[c].lookups = 1 /\ calls[c].inserts = 1
      /\ calls[c].result.val = calls[c].dataKey
      /\ Len(calls[c].result.val) = KEY_LENGTH
      /\ OwnRows(c) # {}
      /\ \A i \in RowsOf(user_keys, calls[c].userId) :
           Unwrapped(env, user_keys[i].wrapped_data_key)
             = Ok(calls[c].result.val, Unwrapped(env, calls[c].wrappedKey).work)

\* An invocation has created its user's row and returned.
C11_Witness ==
  \E c \in CallIds :
    /\ calls[c].pc = "returned" /\ calls[c].path = "created"
    /\ calls[c].lookups = 1
    /\ OwnRows(c) # {}

\* key occurs in bytes as a contiguous run.
Contains(bytes, key) ==
  /\ Len(key) <= Len(bytes)
  /\ \E o \in 0..(Len(bytes) - Len(key)) :
       \A j \in 1..Len(key) : bytes[o + j] = key[j]

\* w is an output of wrapDataKey under the configured master key.
IsWrappedKey(w) ==
  \E rk \in Rand, rw \in Rand :
    Wrapped(env, rk, rw).ok /\ w = Wrapped(env, rk, rw).val

\* The bytes of w hold neither a raw data key nor a master key.
NoRawKeyIn(w) ==
  /\ \A rk \in Rand : ~Contains(FromBase64(w), generateDataKey(rk))
  /\ \A e \in ValidEnvs : ~Contains(FromBase64(w), getMasterKey(e).val)
  /\ \A rk \in Rand : w # ToBase64(generateDataKey(rk))

\* The outputs of wrapDataKey that hold no raw key.
OpaqueWrappedKeys == {w \in WrappedKeys : NoRawKeyIn(w)}

\* C18: every value getOrCreateUserDataKey sends to the user_keys table, and
\* so every value the table holds, is an output of wrapDataKey; it is never
\* the raw data key or the master key.
C18_OnlyWrappedKeysPersisted ==
  /\ \A i \in 1..Len(user_keys) :
       /\ IsWrappedKey(user_keys[i].wrapped_data_key)
       /\ user_keys[i].wrapped_data_key \in OpaqueWrappedKeys
  /\ \A c \in CallIds :
       calls[c].pc \in {"insert", "retry"} =>
         /\ IsWrappedKey(calls[c].wrappedKey)
         /\ calls[c].wrappedKey \in OpaqueWrappedKeys

\* A row is stored, and the insert of an invocation that lost the race for
\* that user has been sent as well.
C18_Witness ==
  \E c \in CallIds :
    /\ calls[c].pc = "retry"
    /\ RowsOf(user_keys, calls[c].userId) # {}

\* ------------------------------------------ provisioning: a failing store
\* The table may already hold a user's row, wrapped under the configured
\* master key or under another one, or damaged while stored; and the store
\* may answer any request with an error.

StoreCalls == 1 .. (NumCalls - 1)

\* A stored wrapped key with one bit of its ciphertext part changed.
CorruptedKey(w) ==
  ToBase64(FlipBit(FromBase64(w), IV_LENGTH + AUTH_TAG_LENGTH + 1, 0))

\* Rows user 1 may have before the first call: none, a key wrapped under
\* either master key, or such a row damaged.
StoredRows ==
  {<<>>}
    \cup {<<[user_id |-> 1, wrapped_data_key |-> Wrapped(e, 0, 0).val]>> :
            e \in ValidEnvs}
    \cup {<<[user_id |-> 1,
             wrapped_data_key |-> CorruptedKey(Wrapped(e, 0, 0).val)]>> :
            e \in ValidEnvs}

\* A select answered with an error and no data.
NoRow == [found |-> FALSE, wrapped_data_key |-> <<>>, error |-> TRUE]

\* The lookup is answered with an error whatever the table holds.
LookupFails(c) == LookupAnswered(c, NoRow)

\* The insert is answered with an error and stores nothing.
InsertFails(c) == InsertAnswered(c, [table |-> user_keys, error |-> TRUE])

\* The insert stores the row but its answer is an error.
InsertCommitsThenFails(c) ==
  InsertAnswered(c, [table |-> InsertRow(user_keys, calls[c].userId,
                                         calls[c].wrappedKey).table,
                     error |-> TRUE])

\* The re-read is answered with an error whatever the table holds.
RetryFails(c) == RetryAnswered(c, NoRow)

StoreInit ==
  /\ env \in ValidEnvs
  /\ user_keys \in StoredRows
  /\ calls = [c \in CallIds |-> IdleCall]
  /\ CipherIdle /\ KeysIdle /\ NonceIdle /\ RoutesIdle

StoreNext ==
  \/ \E c \in StoreCalls, u \in Users : Invoke(c, u)
  \/ \E c \in StoreCalls : Lookup(c)
  \/ \E c \in StoreCalls : LookupFails(c)
  \/ \E c \in StoreCalls : Insert(c)
  \/ \E c \in StoreCalls : InsertFails(c)
  \/ \E c \in StoreCalls : InsertCommitsThenFails(c)
  \/ \E c \in StoreCalls : Retry(c)
  \/ \E c \in StoreCalls : RetryFails(c)

SpecStore == StoreInit /\ [][StoreNext]_vars

\* The keys the user's rows unwrap to under the configured master key.
StoredKeysOf(u) ==
  {Unwrapped(env, user_keys[i].wrapped_data_key).val :
     i \in {j \in RowsOf(user_keys, u) :
              Unwrapped(env, user_keys[j].wrapped_data_key).ok}}

\* C12: an invocation whose insert failed and whose re-read found no row
\* fails with KeyProvisioningError; and a key an invocation returns is always
\* a persisted one: the key its own successful insert stored, or the key a
\* stored row unwraps to, never a key that only the invocation holds.
C12_NoKeyWithoutRow ==
  \A c \in CallIds :
    Finished(c) =>
      /\ (calls[c].insertError /\ ~calls[c].retryKey) =>
           /\ calls[c].pc = "threw"
           /\ calls[c].result.err = "KeyProvisioningError"
           /\ calls[c].result.val = <<>>
      /\ calls[c].pc = "returned" =>
           /\ Len(calls[c].result.val) = KEY_LENGTH
           /\ calls[c].result.val \in StoredKeysOf(calls[c].userId)
           /\ calls[c].insertError => calls[c].retryKey

\* An insert was answered with an error, the re-read found no row, and the
\* invocation has failed although it holds a key it generated.
C12_Witness ==
  \E c \in CallIds :
    /\ calls[c].pc = "threw"
    /\ calls[c].insertError /\ ~calls[c].retryKey
    /\ Len(calls[c].dataKey) = KEY_LENGTH
    /\ RowsOf(user_keys, calls[c].userId) = {}

\* How far an invocation has come.
Rank(pc) ==
  CASE pc = "idle" -> 0
    [] pc = "lookup" -> 1
    [] pc = "insert" -> 2
    [] pc = "retry" -> 3
    [] OTHER -> 4

WithinBudget(call) ==
  /\ call.generated <= 1
  /\ call.inserts <= 1
  /\ call.lookups <= 2
  /\ call.lookups + call.inserts <= 3

\* C13: whatever the store answers, an invocation generates at most one key,
\* attempts at most one insert and issues at most two lookups; each answer
\* moves it forward (lookup, insert, re-read, end), it never goes back to an
\* earlier step or repeats one, and once it has returned or thrown it does
\* nothing more.
C13_BoundedWork ==
  [][\A c \in CallIds :
       /\ WithinBudget(calls'[c])
       /\ calls'[c] # calls[c] => Rank(calls'[c].pc) > Rank(calls[c].pc)
       /\ Finished(c) => calls'[c] = calls[c]]_vars

\* An invocation has ended after the longest path: a lookup, a key
\* generation, an insert and a re-read.
C13_Witness ==
  \E c \in CallIds :
    /\ Finished(c)
    /\ calls[c].generated = 1 /\ calls[c].inserts = 1 /\ calls[c].lookups = 2

\* C14: an invocation whose lookup found a row returns what unwrapDataKey
\* gives for that row; when the row does not unwrap (it was wrapped under
\* another master key, or damaged) the invocation fails with
\* DecryptionError, having generated no key and attempted no insert, and the
\* table is as it was.
C14_ExistingRowNeverReplaced ==
  [][\A c \in CallIds :
       (~calls[c].existingKey /\ calls'[c].existingKey) =>
         /\ calls'[c].pc \in {"returned", "threw"}
         /\ calls'[c].path = "existing"
         /\ calls'[c].generated = 0 /\ calls'[c].inserts = 0
         /\ calls'[c].lookups = 1
         /\ user_keys' = user_keys
         /\ \E i \in RowsOf(user_keys, calls[c].userId) :
              calls'[c].result = Unwrapped(env, user_keys[i].wrapped_data_key)
         /\ calls'[c].pc = "threw" =>
              /\ calls'[c].result.err = "DecryptionError"
              /\ calls'[c].result.val = <<>>]_vars

\* A lookup found a row that does not unwrap under the configured master
\* key, and the invocation has failed.
C14_Witness ==
  \E c \in CallIds :
    /\ calls[c].existingKey /\ calls[c].pc = "threw"
    /\ calls[c].result.err = "DecryptionError"
    /\ Len(user_keys) = 1

\* ------------------------------------------------- the cipher: one envelope
\* An envelope is produced by encrypt, stored, possibly altered in one bit
\* of one field while stored, and read back by decrypt.

\* UTF-16 code units a plaintext is built from: "A", U+65E5 (three bytes in
\* UTF-8), and the two halves of U+1F600 (a surrogate pair, four bytes).
CodeUnits == {65, 26085, 55357, 56832}

\* Every JavaScript string of at most MaxLen code units over CodeUnits,
\* the empty string and strings with an unpaired surrogate included.
Plaintexts == UNION {[1..n -> CodeUnits] : n \in 0..MaxLen}

\* The 32-byte keys generateDataKey can return.
DataKeys == {generateDataKey(r) : r \in Rand}

Fields == {"ciphertext", "iv", "authTag"}

\* encrypt(p, k) is called and its envelope stored.
Encrypt(p, k, r) ==
  /\ sealed = NoSealed
  /\ LET result == encrypt(p, k, r) IN
     /\ sealed' = [plaintext |-> p, dataKey |-> k, r |-> r, result |-> result]
     /\ held' = [NoHeld EXCEPT !.data = IF result.ok THEN result.val ELSE @]
  /\ UNCHANGED <<opened, provVars, keyVars, nonceVars, routeVars>>

\* One bit of one byte of one field of the stored envelope is altered.
Tamper(field, i, b) ==
  /\ sealed.result.ok /\ held.altered = "" /\ opened = NoOpened
  /\ LET bytes == FromBase64(held.data[field]) IN
     /\ i <= Len(bytes)
     /\ held' = [data |-> [held.data EXCEPT
                             ![field] = ToBase64(FlipBit(bytes, i, b))],
                 altered |-> field, byte |-> i, bit |-> b]
  /\ UNCHANGED <<sealed, opened, provVars, keyVars, nonceVars, routeVars>>

\* decrypt(stored envelope, k) is called.
Decrypt(k) ==
  /\ sealed.result.ok /\ opened = NoOpened
  /\ opened' = [dataKey |-> k, result |-> decrypt(held.data, k)]
  /\ UNCHANGED <<sealed, held, provVars, keyVars, nonceVars, routeVars>>

\* The longest field of an envelope, in bytes.
MaxFieldLen == IF 4 * MaxLen > AUTH_TAG_LENGTH THEN 4 * MaxLen
               ELSE AUTH_TAG_LENGTH

CipherInit ==
  /\ env = EnvText(ToBase64(MasterKeyBytes(1)))
  /\ user_keys = <<>>
  /\ calls = [c \in CallIds |-> IdleCall]
  /\ CipherIdle /\ KeysIdle /\ NonceIdle /\ RoutesIdle

\* An envelope is read back under any key.
CipherNext ==
  \/ \E p \in Plaintexts, k \in DataKeys, r \in Rand : Encrypt(p, k, r)
  \/ \E k \in DataKeys : Decrypt(k)

SpecCipher == CipherInit /\ [][CipherNext]_vars

\* An envelope is altered while stored and read back under its own key.
TamperNext ==
  \/ /\ sealed = NoSealed
     /\ \E p \in Plaintexts, k \in DataKeys, r \in Rand : Encrypt(p, k, r)
  \/ /\ held.altered = "" /\ opened = NoOpened
     /\ \E field \in Fields, i \in 1..MaxFieldLen, b \in 0..7 :
          Tamper(field, i, b)
  \/ Decrypt(sealed.dataKey)

SpecTamper == CipherInit /\ [][TamperNext]_vars

\* ------------------------------------------------------ cipher: properties

Read == opened # NoOpened
ReadUnderOwnKey == Read /\ opened.dataKey = sealed.dataKey
Rejected(result) ==
  ~result.ok /\ result.err = "DecryptionError" /\ result.val = <<>>

\* C3 as stated: for every plaintext p, the empty string and multi-byte
\* text included, and every 32-byte key k, encrypt(p, k) succeeds and
\* decrypt(encrypt(p, k), k) returns exactly p.
C3_RoundTripEveryPlaintext ==
  /\ sealed # NoSealed => sealed.result.ok
  /\ (ReadUnderOwnKey /\ held.altered = "") =>
       opened.result.ok /\ opened.result.val = sealed.plaintext

\* C3 as amended: for every plaintext p that has no unpaired surrogate, the
\* empty string and multi-byte text included, and every 32-byte key k,
\* encrypt(p, k) succeeds and decrypt(encrypt(p, k), k) returns exactly p.
C3_RoundTripWellFormed ==
  /\ sealed # NoSealed => sealed.result.ok
  /\ (ReadUnderOwnKey /\ held.altered = "" /\ WellFormed(sealed.plaintext)) =>
       opened.result.ok /\ opened.result.val = sealed.plaintext

\* A text holding a surrogate pair (four bytes in UTF-8) was encrypted and
\* read back under its key.
C3_Witness ==
  /\ ReadUnderOwnKey /\ opened.result.ok
  /\ WellFormed(sealed.plaintext)
  /\ Len(FromBase64(held.data.ciphertext)) > Len(sealed.plaintext)
  /\ \E i \in 1..Len(sealed.plaintext) : IsHighSurrogate(sealed.plaintext[i])

\* C5: when one bit of the ciphertext, the iv or the authTag of an envelope
\* produced by encrypt is altered, decrypt under the original key fails with
\* DecryptionError and returns no text.
C5_TamperDetected ==
  (ReadUnderOwnKey /\ held.altered # "") => Rejected(opened.result)

\* The top bit of a ciphertext byte was altered and decrypt, under the
\* original key, has refused the envelope.
C5_Witness ==
  /\ ReadUnderOwnKey /\ held.altered = "ciphertext" /\ held.bit = 7
  /\ held.data.ciphertext # sealed.result.val.ciphertext
  /\ held.data.iv = sealed.result.val.iv
  /\ ~opened.result.ok

\* C6: decrypt of an unaltered envelope under a 32-byte key other than the
\* one it was encrypted under fails with DecryptionError and returns no
\* text.
C6_WrongKeyRejected ==
  (Read /\ held.altered = "" /\ opened.dataKey # sealed.dataKey) =>
    Rejected(opened.result)

\* A non-empty text was encrypted under one key and decrypt was called
\* under another.
C6_Witness ==
  /\ Read /\ held.altered = ""
  /\ opened.dataKey # sealed.dataKey
  /\ Len(opened.dataKey) = KEY_LENGTH
  /\ sealed.plaintext # <<>>

\* ------------------------------------------- the cipher: two encrypt calls
\* Two texts are encrypted one after the other under one key.  The secure
\* random source is taken never to return the same bytes twice.

EncryptFirst(p, k, r) ==
  /\ first = NoSealed
  /\ first' = [plaintext |-> p, dataKey |-> k, r |-> r,
               result |-> encrypt(p, k, r)]
  /\ UNCHANGED <<second, provVars, cipherVars, keyVars, routeVars>>

EncryptSecond(p, r) ==
  /\ first # NoSealed /\ second = NoSealed
  /\ r # first.r
  /\ second' = [plaintext |-> p, dataKey |-> first.dataKey, r |-> r,
                result |-> encrypt(p, first.dataKey, r)]
  /\ UNCHANGED <<first, provVars, cipherVars, keyVars, routeVars>>

NonceNext ==
  \/ \E p \in Plaintexts, k \in DataKeys, r \in Rand : EncryptFirst(p, k, r)
  \/ \E p \in Plaintexts, r \in Rand : EncryptSecond(p, r)

SpecNonce == CipherInit /\ [][NonceNext]_vars

BothSealed == second # NoSealed /\ first.result.ok /\ second.result.ok

\* C7 as stated: two encrypt calls under one key use different nonces, and
\* when they encrypt the same plaintext their nonce values differ and their
\* ciphertext values differ.
C7_FreshNonceFreshCiphertext ==
  BothSealed =>
    /\ first.result.val.iv # second.result.val.iv
    /\ first.plaintext = second.plaintext =>
         first.result.val.ciphertext # second.result.val.ciphertext

\* C7 as amended: each encrypt call uses as its nonce the 12 bytes it drew
\* from the random source, so two calls under one key that drew different
\* bytes use different nonces; when they encrypt the same plaintext their
\* envelopes differ, while for the empty plaintext both ciphertext values
\* are empty.
C7_FreshNonce ==
  BothSealed =>
    /\ FromBase64(first.result.val.iv) = randomBytes(IV_LENGTH, first.r)
    /\ FromBase64(second.result.val.iv) = randomBytes(IV_LENGTH, second.r)
    /\ first.result.val.iv # second.result.val.iv
    /\ first.result.val # second.result.val
    /\ (first.plaintext = <<>> /\ second.plaintext = <<>>) =>
         /\ first.result.val.ciphertext = <<>>
         /\ second.result.val.ciphertext = <<>>

\* The same non-empty text was encrypted twice under one key.
C7_Witness ==
  /\ BothSealed
  /\ first.plaintext = second.plaintext /\ first.plaintext # <<>>
  /\ first.dataKey = second.dataKey
  /\ first.r # second.r

\* ------------------------------------------------ the key manager: calls
\* An operator configures the master key; callers generate and wrap data
\* keys, unwrap the wrapped key they hold, re-wrap it for a new master key,
\* and encrypt and decrypt short texts.

\* A text that is the base64 encoding of some bytes.
ValidBase64(t) == t = ToBase64(FromBase64(t))

\* Values of the environment variable that are not a base64-encoded 32-byte
\* key: unset, empty, 31 bytes, 33 bytes, two characters outside the
\* alphabet, and a valid key with one such character in front of it.
InvalidEnvs ==
  { EnvUnset,
    EnvText(<<>>),
    EnvText(ToBase64(Tuple([i \in 1..(KEY_LENGTH - 1) |-> 1]))),
    EnvText(ToBase64(Tuple([i \in 1..(KEY_LENGTH + 1) |-> 1]))),
    EnvText(<<B64Junk, B64Junk>>),
    EnvText(<<B64Junk>> \o ToBase64(MasterKeyBytes(1))) }

AllEnvs == ValidEnvs \cup InvalidEnvs

\* The new master keys handed to reWrapDataKey: the valid keys and a short
\* one.
NewMasterKeys ==
  {ToBase64(MasterKeyBytes(m)) : m \in {1, 2}}
    \cup {ToBase64(Tuple([i \in 1..(KEY_LENGTH - 1) |-> 2]))}

\* The texts the key manager's callers encrypt: the empty string and one
\* three-byte character.
ShortTexts == {<<>>, <<26085>>}

\* reWrapDataKey and encrypt, tabulated once over the model's inputs; a
\* value outside the table is computed.
ReWrapTable ==
  Table([e \in Envs |-> Table([w \in WrappedKeys |->
    Table([n \in NewMasterKeys |-> Table([r \in Rand |->
      reWrapDataKey(e, w, n, r)])])])])

ReWrapped(e, w, n, r) ==
  IF e \in Envs /\ w \in WrappedKeys /\ n \in NewMasterKeys
  THEN ReWrapTable[e][w][n][r]
  ELSE reWrapDataKey(e, w, n, r)

EncryptTable ==
  Table([p \in ShortTexts |-> Table([k \in DataKeys |->
    Table([r \in Rand |-> encrypt(p, k, r)])])])

Encrypted(p, k, r) ==
  IF p \in ShortTexts /\ k \in DataKeys THEN EncryptTable[p][k][r]
  ELSE encrypt(p, k, r)

Call(op, input, dataKey, newKey, result) ==
  [op |-> op, masterKeyEnv |-> env, input |-> input, dataKey |-> dataKey,
   newMasterKeyBase64 |-> newKey, result |-> result]

\* The process is restarted with another value of the variable.
Configure(e) ==
  /\ e # env
  /\ env' = e
  /\ kcall' = NoCall
  /\ UNCHANGED <<stored, user_keys, calls, cipherVars, nonceVars,
                 routeVars, rotation>>

\* wrapDataKey(generateDataKey()); the caller keeps the wrapped key.
WrapKey(rk, rw) ==
  /\ LET dataKey == generateDataKey(rk)
         result == Wrapped(env, rk, rw)
     IN  /\ kcall' = Call("wrapDataKey", <<>>, dataKey, <<>>, result)
         /\ stored' = IF result.ok
                      THEN [wrapped_data_key |-> result.val,
                            dataKey |-> dataKey, masterKeyEnv |-> env,
                            previousEnv |-> env, origin |-> "wrapDataKey"]
                      ELSE stored
  /\ UNCHANGED <<provVars, cipherVars, nonceVars,
                 routeVars, rotation>>

\* unwrapDataKey(the wrapped key held)
UnwrapKey ==
  /\ stored # NoStored
  /\ kcall' = Call("unwrapDataKey", stored.wrapped_data_key, <<>>, <<>>,
                   Unwrapped(env, stored.wrapped_data_key))
  /\ UNCHANGED <<stored, provVars, cipherVars, nonceVars,
                 routeVars, rotation>>

\* reWrapDataKey(the wrapped key held, newKey); the caller keeps the result
\* in place of the key it held, and notes what that key unwrapped to.
ReWrapKey(newKey, r) ==
  /\ stored # NoStored
  /\ LET result == ReWrapped(env, stored.wrapped_data_key, newKey, r)
     IN  /\ kcall' = Call("reWrapDataKey", stored.wrapped_data_key, <<>>,
                          newKey, result)
         /\ stored' = IF result.ok
                      THEN [wrapped_data_key |-> result.val,
                            dataKey |->
                              Unwrapped(env, stored.wrapped_data_key).val,
                            masterKeyEnv |-> EnvText(newKey),
                            previousEnv |-> env, origin |-> "reWrapDataKey"]
                      ELSE stored
  /\ UNCHANGED <<provVars, cipherVars, nonceVars,
                 routeVars, rotation>>

\* encrypt(p, k)
EncryptText(p, k, r) ==
  /\ kcall' = Call("encrypt", p, k, <<>>, Encrypted(p, k, r))
  /\ UNCHANGED <<stored, provVars, cipherVars, nonceVars,
                 routeVars, rotation>>

\* decrypt(the envelope just produced, its key)
DecryptText ==
  /\ kcall.op = "encrypt" /\ kcall.result.ok
  /\ kcall' = Call("decrypt", kcall.result.val, kcall.dataKey, <<>>,
                   decrypt(kcall.result.val, kcall.dataKey))
  /\ UNCHANGED <<stored, provVars, cipherVars, nonceVars,
                 routeVars, rotation>>

KeysInit ==
  /\ env \in AllEnvs
  /\ user_keys = <<>>
  /\ calls = [c \in CallIds |-> IdleCall]
  /\ CipherIdle /\ KeysIdle /\ NonceIdle /\ RoutesIdle

KeysNext ==
  \/ \E e \in AllEnvs : Configure(e)
  \/ \E rk \in Rand, rw \in Rand : WrapKey(rk, rw)
  \/ UnwrapKey
  \/ \E newKey \in NewMasterKeys, r \in Rand : ReWrapKey(newKey, r)
  \/ \E p \in ShortTexts, r \in Rand : EncryptText(p, generateDataKey(0), r)
  \/ DecryptText

SpecKeys == KeysInit /\ [][KeysNext]_vars

\* ------------------------------------------------- key manager: properties

\* The held key is unwrapped under the configuration it was wrapped for.
UnwrappedAsWrapped(origin) ==
  /\ kcall.op = "unwrapDataKey"
  /\ stored.origin = origin
  /\ kcall.input = stored.wrapped_data_key
  /\ kcall.masterKeyEnv = stored.masterKeyEnv

\* C4: with a valid master key configured, wrapDataKey succeeds on every
\* generated data key d, and unwrapDataKey of the result under the same
\* configuration returns exactly d.
C4_WrapRoundTrip ==
  /\ (kcall.op = "wrapDataKey" /\ kcall.masterKeyEnv \in ValidEnvs) =>
       kcall.result.ok
  /\ UnwrappedAsWrapped("wrapDataKey") =>
       kcall.result.ok /\ kcall.result.val = stored.dataKey

\* A generated key was wrapped and then unwrapped under the same valid
\* master key.
C4_Witness ==
  /\ UnwrappedAsWrapped("wrapDataKey")
  /\ kcall.masterKeyEnv \in ValidEnvs
  /\ stored.dataKey \in DataKeys

\* C8: reWrapDataKey(w, newKey) succeeds when w unwraps under the configured
\* (old) master key and newKey is a 32-byte key, and unwrapping its result
\* under the new master key returns the data key that unwrapping w under
\* the old master key returned.
C8_RotationCorrect ==
  /\ ( /\ kcall.op = "reWrapDataKey"
       /\ Unwrapped(kcall.masterKeyEnv, kcall.input).ok
       /\ Len(FromBase64(kcall.newMasterKeyBase64)) = KEY_LENGTH ) =>
       kcall.result.ok
  /\ UnwrappedAsWrapped("reWrapDataKey") =>
       kcall.result.ok /\ kcall.result.val = stored.dataKey

\* A key was re-wrapped for a master key other than the configured one, the
\* new master key was configured, and the key was unwrapped under it.
C8_Witness ==
  /\ UnwrappedAsWrapped("reWrapDataKey")
  /\ kcall.result.ok
  /\ getMasterKey(stored.previousEnv).val # getMasterKey(stored.masterKeyEnv).val

\* getMasterKey refuses the value: unset, empty, or not 32 bytes once
\* decoded.
Misconfigured(e) ==
  ~e.set \/ e.text = <<>> \/ Len(FromBase64(e.text)) # KEY_LENGTH

KeyManagerCall == kcall.op \in {"wrapDataKey", "unwrapDataKey"}
CipherCall == kcall.op \in {"encrypt", "decrypt"}

\* C9 as stated: a call of wrapDataKey, unwrapDataKey, encrypt or decrypt
\* while the configured value is missing, is not valid base64, or does not
\* decode to exactly 32 bytes raises ConfigurationError before any
\* cryptographic work.
C9_ConfigurationFailureEveryOperation ==
  ( /\ KeyManagerCall \/ CipherCall
    /\ \/ ~kcall.masterKeyEnv.set
       \/ ~ValidBase64(kcall.masterKeyEnv.text)
       \/ Len(FromBase64(kcall.masterKeyEnv.text)) # KEY_LENGTH ) =>
    kcall.result = Throw("ConfigurationError", <<>>)

\* C9 as amended: a call of wrapDataKey or unwrapDataKey while the configured
\* value is missing, empty, or does not decode to exactly 32 bytes raises
\* ConfigurationError before any cryptographic work, and raises it in no
\* other case; encrypt and decrypt do not read the configuration and
\* succeed whatever its value.
C9_ConfigurationFailure ==
  /\ KeyManagerCall =>
       IF Misconfigured(kcall.masterKeyEnv)
       THEN kcall.result = Throw("ConfigurationError", <<>>)
       ELSE kcall.result.err # "ConfigurationError"
  /\ CipherCall => kcall.result.ok

\* The held key was unwrapped after the process was restarted with a value
\* that getMasterKey refuses.
C9_Witness ==
  /\ kcall.op = "unwrapDataKey"
  /\ Misconfigured(kcall.masterKeyEnv)
  /\ stored.wrapped_data_key # <<>>
  /\ ~kcall.result.ok

\* ------------------------------------------- the key manager: damaged keys
\* The wrapped key a caller holds is read back from storage cut short, with
\* a bit changed, or under another master key, and handed to unwrapDataKey.

\* Decoded lengths a stored wrapped key is cut to: nothing, inside the
\* nonce, the nonce alone, inside the tag, the whole header.
HeaderCuts == {0, 11, 12, 16, 20, 27, 28}

\* Bytes of a wrapped key in which a bit is changed: nonce, tag, ciphertext.
DamagedBytes == {1, IV_LENGTH + 1, IV_LENGTH + AUTH_TAG_LENGTH + 1}

Held(w, how) == [stored EXCEPT !.wrapped_data_key = w, !.origin = how]

\* The stored text is cut to n decoded bytes.
Truncate(n) ==
  /\ stored.origin = "wrapDataKey"
  /\ stored' = Held(ToBase64(Subarray(FromBase64(stored.wrapped_data_key),
                                      0, n)), "truncated")
  /\ kcall' = NoCall
  /\ UNCHANGED <<provVars, cipherVars, nonceVars,
                 routeVars, rotation>>

\* One bit of the stored text's bytes is changed.
Damage(i) ==
  /\ stored.origin = "wrapDataKey"
  /\ stored' = Held(ToBase64(FlipBit(FromBase64(stored.wrapped_data_key),
                                     i, 0)), "damaged")
  /\ kcall' = NoCall
  /\ UNCHANGED <<provVars, cipherVars, nonceVars,
                 routeVars, rotation>>

\* wrapDataKey applied to an empty buffer under the master key of e, and
\* its output cut to the nonce and the first t bytes of the tag.
ShortTagged(e, r, t) ==
  ToBase64(Subarray(FromBase64(wrapDataKey(e, <<>>, r).val),
                    0, IV_LENGTH + t))

\* The stored text is replaced by a nonce followed by a short tag.
Substitute(e, r, t) ==
  /\ stored' = [wrapped_data_key |-> ShortTagged(e, r, t), dataKey |-> <<>>,
                masterKeyEnv |-> e, previousEnv |-> e, origin |-> "short"]
  /\ kcall' = NoCall
  /\ UNCHANGED <<provVars, cipherVars, nonceVars,
                 routeVars, rotation>>

UnwrapInit ==
  /\ env \in ValidEnvs
  /\ user_keys = <<>>
  /\ calls = [c \in CallIds |-> IdleCall]
  /\ CipherIdle /\ KeysIdle /\ NonceIdle /\ RoutesIdle

UnwrapNext ==
  \/ \E e \in ValidEnvs : Configure(e)
  \/ \E rk \in Rand, rw \in Rand : WrapKey(rk, rw)
  \/ \E n \in HeaderCuts : Truncate(n)
  \/ \E i \in DamagedBytes : Damage(i)
  \/ \E e \in ValidEnvs, r \in Rand, t \in TagLengths : Substitute(e, r, t)
  \/ UnwrapKey

SpecUnwrap == UnwrapInit /\ [][UnwrapNext]_vars

\* The tag carried by a wrapped key is the one the cipher computes for its
\* nonce and ciphertext under the master key of e.
TagVerifies(e, w) ==
  LET data == FromBase64(w)
      iv == Subarray(data, 0, IV_LENGTH)
      authTag == Subarray(data, IV_LENGTH, IV_LENGTH + AUTH_TAG_LENGTH)
      encrypted == Subarray(data, IV_LENGTH + AUTH_TAG_LENGTH, Len(data))
  IN  authTag = GcmTag(getMasterKey(e).val, iv, encrypted)

\* C15: unwrapDataKey fails with DecryptionError and returns no key bytes
\* whenever the tag of its input does not verify under the configured master
\* key, or its decoded input is shorter than the 28 bytes of nonce and tag.
C15_UnwrapRejectsDamagedKeys ==
  ( /\ kcall.op = "unwrapDataKey"
    /\ \/ ~TagVerifies(kcall.masterKeyEnv, kcall.input)
       \/ Len(FromBase64(kcall.input)) < IV_LENGTH + AUTH_TAG_LENGTH ) =>
    Rejected(kcall.result)

\* ------------------------------------------ the cipher: malformed envelopes
\* An envelope is stored, a character outside the base64 alphabet gets into
\* one of its fields, and it is read back under its key or under a key of
\* another length.

\* Keys that are not 32 bytes long: none, one byte short, one byte long.
WrongLengthKeys(k) ==
  {<<>>, Subarray(k, 0, KEY_LENGTH - 1), k \o <<0>>}

\* Character positions at which a field is garbled.
GarbledAt == {1, 2}

InsertAt(t, i, c) ==
  IF i > Len(t) THEN Append(t, c)
  ELSE SubSeq(t, 1, i - 1) \o <<c>> \o SubSeq(t, i, Len(t))

\* A character outside the alphabet is inserted into a field, or takes the
\* place of one of its characters.
Garble(field, i, inserted) ==
  /\ sealed.result.ok /\ held.altered = "" /\ opened = NoOpened
  /\ inserted \/ i <= Len(held.data[field])
  /\ held' = [data |-> [held.data EXCEPT
                          ![field] = IF inserted
                                     THEN InsertAt(@, i, B64Junk)
                                     ELSE [@ EXCEPT ![i] = B64Junk]],
              altered |-> field, byte |-> i, bit |-> 0]
  /\ UNCHANGED <<sealed, opened, provVars, keyVars, nonceVars, routeVars>>

MalformedNext ==
  \/ \E p \in Plaintexts, k \in DataKeys, r \in Rand : Encrypt(p, k, r)
  \/ \E field \in Fields, i \in GarbledAt, inserted \in BOOLEAN :
       Garble(field, i, inserted)
  \/ \E k \in {sealed.dataKey} \cup WrongLengthKeys(sealed.dataKey) :
       Decrypt(k)

SpecMalformed == CipherInit /\ [][MalformedNext]_vars

\* The stored envelope decodes to the bytes encrypt produced.
SameBytes ==
  \A field \in Fields :
    FromBase64(held.data[field]) = FromBase64(sealed.result.val[field])

ReWrapCall == kcall.op = "reWrapDataKey"
NewKeyRefused == Len(FromBase64(kcall.newMasterKeyBase64)) # KEY_LENGTH

\* C17 as stated: reWrapDataKey fails with ConfigurationError and returns no
\* wrapped key whenever the new master key does not decode to exactly 32
\* bytes.
C17_BadNewKeyIsConfigurationError ==
  (ReWrapCall /\ NewKeyRefused) =>
    /\ ~kcall.result.ok /\ kcall.result.val = <<>>
    /\ kcall.result.err = "ConfigurationError"

\* C17 as amended: reWrapDataKey unwraps its input under the configured
\* master key first, and a failure of that step is the failure of the call;
\* then, when the new master key does not decode to exactly 32 bytes, it
\* fails with ConfigurationError.  In both cases it returns no wrapped key.
\* What it returns otherwise unwraps under the new master key to the key the
\* input held, and under no other master key.
C17_NewKeyValidatedAfterUnwrap ==
  ReWrapCall =>
    LET dataKey == Unwrapped(kcall.masterKeyEnv, kcall.input) IN
    /\ ~dataKey.ok => kcall.result = dataKey
    /\ (dataKey.ok /\ NewKeyRefused) =>
         /\ ~kcall.result.ok /\ kcall.result.val = <<>>
         /\ kcall.result.err = "ConfigurationError"
    /\ NewKeyRefused => ~kcall.result.ok /\ kcall.result.val = <<>>
    /\ kcall.result.ok =>
         /\ dataKey.ok /\ ~NewKeyRefused
         /\ \A e \in ValidEnvs :
              IF getMasterKey(e).val = FromBase64(kcall.newMasterKeyBase64)
              THEN Unwrapped(e, kcall.result.val).ok
                   /\ Unwrapped(e, kcall.result.val).val = dataKey.val
              ELSE Rejected(Unwrapped(e, kcall.result.val))

\* A key that unwraps under the configured master key was handed to
\* reWrapDataKey with a new master key of 31 bytes, and the call has failed.
C17_Witness ==
  /\ ReWrapCall /\ NewKeyRefused
  /\ Unwrapped(kcall.masterKeyEnv, kcall.input).ok
  /\ kcall.result.err = "ConfigurationError"

\* ------------------------------------------------------------- the routes
\* Each action is one request handled to its response.  A handler's call of
\* getOrCreateUserDataKey is taken as a whole: by C1, C2 and C10 its result
\* does not depend on what other requests do in between.

\* What transcribeAudio returns (the text of the response, decoded as UTF-8,
\* so without unpaired surrogates): nothing, a blank, "A", U+1F600.
Transcripts == {<<>>, <<32>>, <<65>>, <<55357, 56832>>}

\* transcript.trim().length === 0
Blank(t) == \A i \in 1..Len(t) : t[i] \in {9, 10, 13, 32}

\* The analysis stored with an entry.  What analyzeEntry makes of a
\* transcript is not modelled; the values the route falls back to when it
\* fails stand for it.
DefaultAnalysis == [sentiment |-> "neutral", mood |-> "reflective", energy |-> 5]

\* The entries the model lets users have.
MaxEntries == NumCalls - 1

\* "[Unable to decrypt]"
UnableToDecrypt ==
  <<91, 85, 110, 97, 98, 108, 101, 32, 116, 111, 32,
    100, 101, 99, 114, 121, 112, 116, 93>>

\* The routes that decrypt every entry of a period or of a search result.
BatchRoutes == {"cron/daily", "cron/summaries"}

\* getOrCreateUserDataKey(u, supabase) run from its lookup to its end: the
\* table afterwards and what it returns or throws.
getOrCreateUserDataKey(table, u, rk, rw) ==
  LET existingKey == SelectSingle(table, u) IN
  IF existingKey.found /\ ~existingKey.error THEN
    [table |-> table,
     result |-> Unwrapped(env, existingKey.wrapped_data_key)]
  ELSE
    LET dataKey == generateDataKey(rk)
        wrappedKey == Wrapped(env, rk, rw)
    IN  IF ~wrappedKey.ok THEN [table |-> table, result |-> wrappedKey]
        ELSE
          LET ins == InsertRow(table, u, wrappedKey.val)
              retryKey == SelectSingle(ins.table, u)
          IN  [table |-> ins.table,
               result |->
                 IF ~ins.error THEN Ok(dataKey, <<>>)
                 ELSE IF retryKey.found
                 THEN Unwrapped(env, retryKey.wrapped_data_key)
                 ELSE Throw("KeyProvisioningError", <<>>)]

Respond(route, u, status, error, body) ==
  [route |-> route, userId |-> u, status |-> status, error |-> error,
   body |-> body]

\* decrypt of the three columns of a row
DecryptRow(row, dataKey) ==
  decrypt([ciphertext |-> row.text_encrypted, iv |-> row.text_iv,
           authTag |-> row.text_auth_tag], dataKey)

EntriesOf(u) == SelectSeq(entries, LAMBDA row : row.user_id = u)

\* The row of audio_assets for an uploaded object; the storage path stands
\* for the generated id.
AudioAsset(u, storagePath) ==
  [id |-> storagePath, user_id |-> u, storage_path |-> storagePath]

\* What happens to an ingest request on its way: nothing ("stored"), the
\* upload, the audio_assets insert, the transcription or the entries insert
\* fails, or the user's profile asks for the audio to be deleted afterwards.
IngestOutcomes ==
  {"stored", "uploadError", "assetError", "transcribeError", "entryError",
   "deleteAudio"}

\* Mutant: the transcript is stored as it is, base64-encoded.
IngestStoringPlaintext(u, t, rk, rw, r) ==
  /\ Len(entries) < MaxEntries
  /\ <<u, Len(entries) + 1>> \notin storage
  /\ IF Blank(t) THEN
       /\ response' = Respond("entries/ingest", u, 400,
                              "No speech detected in audio", <<>>)
       /\ UNCHANGED <<user_keys, entries, requests, storage, audio_assets>>
     ELSE
       \E key \in {getOrCreateUserDataKey(user_keys, u, rk, rw)} :
       \E encryptedData \in {Encrypted(t, key.result.val, r)} :
       \E id \in {Len(entries) + 1} :
       \E storagePath \in {<<u, id>>} :
         /\ user_keys' = key.table
         /\ IF ~key.result.ok \/ ~encryptedData.ok THEN
              /\ response' = Respond("entries/ingest", u, 500,
                                     "Internal server error", <<>>)
              /\ storage' = storage \cup {storagePath}
              /\ audio_assets' = audio_assets \cup {AudioAsset(u, storagePath)}
              /\ UNCHANGED <<entries, requests>>
            ELSE
              /\ entries' = Append(entries,
                   [id |-> id, user_id |-> u,
                    audio_asset_id |-> storagePath,
                    text_encrypted |-> ToBase64(Utf8Encode(t)),
                    text_iv |-> encryptedData.val.iv,
                    text_auth_tag |-> encryptedData.val.authTag,
                    sentiment |-> DefaultAnalysis.sentiment,
                    mood |-> DefaultAnalysis.mood,
                    energy |-> DefaultAnalysis.energy])
              /\ requests' = Append(requests,
                   [entry_id |-> id, userId |-> u, transcript |-> t])
              /\ storage' = storage \cup {storagePath}
              /\ audio_assets' = audio_assets \cup {AudioAsset(u, storagePath)}
              /\ response' = Respond("entries/ingest", u, 200, "", <<id>>)
  /\ UNCHANGED <<env, calls, cipherVars, keyVars, nonceVars>>

\* Mutant: when the data key cannot be had or encrypt fails, the transcript
\* is encrypted under a zero-filled key and the row written.
IngestFallingBack(u, t, rk, rw, r, how) ==
  /\ Len(entries) < MaxEntries
  /\ <<u, Len(entries) + 1>> \notin storage
  /\ how \in {"stored", "deleteAudio"} /\ ~Blank(t)
  /\ \E key \in {getOrCreateUserDataKey(user_keys, u, rk, rw)} :
     \E encryptedData \in
         {IF key.result.ok /\ Encrypted(t, key.result.val, r).ok
          THEN Encrypted(t, key.result.val, r)
          ELSE Encrypted(t, Tuple([i \in 1..KEY_LENGTH |-> 0]), r)} :
     \E id \in {Len(entries) + 1} :
     \E storagePath \in {<<u, id>>} :
         /\ user_keys' = key.table
         /\ entries' = Append(entries,
              [id |-> id, user_id |-> u,
               audio_asset_id |-> IF how = "deleteAudio" THEN <<>> ELSE storagePath,
               text_encrypted |-> encryptedData.val.ciphertext,
               text_iv |-> encryptedData.val.iv,
               text_auth_tag |-> encryptedData.val.authTag,
               sentiment |-> DefaultAnalysis.sentiment,
               mood |-> DefaultAnalysis.mood,
               energy |-> DefaultAnalysis.energy])
         /\ requests' = Append(requests,
              [entry_id |-> id, userId |-> u, transcript |-> t])
         /\ IF how = "deleteAudio" THEN
              UNCHANGED <<storage, audio_assets>>
            ELSE
              /\ storage' = storage \cup {storagePath}
              /\ audio_assets' =
                   audio_assets \cup {AudioAsset(u, storagePath)}
         /\ response' = Respond("entries/ingest", u, 200, "", <<id>>)
  /\ UNCHANGED <<env, calls, cipherVars, keyVars, nonceVars>>

\* POST /api/entries/ingest by user u, whose audio is transcribed as t, with
\* how the request fares.  The object is uploaded under a path made of the
\* user and the time, which no earlier object has.  Tags are not modelled.
IngestAnswered(u, t, rk, rw, r, how) ==
  /\ Len(entries) < MaxEntries
  /\ <<u, Len(entries) + 1>> \notin storage
  /\ IF how = "uploadError" THEN
       /\ response' = Respond("entries/ingest", u, 500,
                              "Failed to upload audio", <<>>)
       /\ UNCHANGED <<user_keys, entries, requests, storage, audio_assets>>
     ELSE IF how = "assetError" THEN
       \* the uploaded object is removed again
       /\ response' = Respond("entries/ingest", u, 500,
                              "Failed to create audio record", <<>>)
       /\ UNCHANGED <<user_keys, entries, requests, storage, audio_assets>>
     ELSE IF how = "transcribeError" THEN
       \* the audio_assets row and the object are removed again
       /\ response' = Respond("entries/ingest", u, 500,
                              "Failed to transcribe audio", <<>>)
       /\ UNCHANGED <<user_keys, entries, requests, storage, audio_assets>>
     ELSE IF Blank(t) THEN
       \* the audio_assets row and the object are removed again
       /\ response' = Respond("entries/ingest", u, 400,
                              "No speech detected in audio", <<>>)
       /\ UNCHANGED <<user_keys, entries, requests, storage, audio_assets>>
     ELSE
       \E key \in {getOrCreateUserDataKey(user_keys, u, rk, rw)} :
       \E encryptedData \in {Encrypted(t, key.result.val, r)} :
       \E id \in {Len(entries) + 1} :
       \E storagePath \in {<<u, id>>} :
         /\ user_keys' = key.table
         /\ IF ~key.result.ok \/ ~encryptedData.ok THEN
              \* the exception reaches the handler's catch
              /\ response' = Respond("entries/ingest", u, 500,
                                     "Internal server error", <<>>)
              /\ storage' = storage \cup {storagePath}
              /\ audio_assets' = audio_assets \cup {AudioAsset(u, storagePath)}
              /\ UNCHANGED <<entries, requests>>
            ELSE IF how = "entryError" THEN
              /\ response' = Respond("entries/ingest", u, 500,
                                     "Failed to create entry", <<>>)
              /\ storage' = storage \cup {storagePath}
              /\ audio_assets' = audio_assets \cup {AudioAsset(u, storagePath)}
              /\ UNCHANGED <<entries, requests>>
            ELSE
              /\ entries' = Append(entries,
                   [id |-> id, user_id |-> u,
                    audio_asset_id |-> IF how = "deleteAudio" THEN <<>> ELSE storagePath,
                    text_encrypted |-> encryptedData.val.ciphertext,
                    text_iv |-> encryptedData.val.iv,
                    text_auth_tag |-> encryptedData.val.authTag,
                    sentiment |-> DefaultAnalysis.sentiment,
                    mood |-> DefaultAnalysis.mood,
                    energy |-> DefaultAnalysis.energy])
              /\ requests' = Append(requests,
                   [entry_id |-> id, userId |-> u, transcript |-> t])
              /\ IF how = "deleteAudio" THEN
                   UNCHANGED <<storage, audio_assets>>
                 ELSE
                   /\ storage' = storage \cup {storagePath}
                   /\ audio_assets' =
                        audio_assets \cup {AudioAsset(u, storagePath)}
              /\ response' = Respond("entries/ingest", u, 200, "", <<id>>)
  /\ UNCHANGED <<env, calls, cipherVars, keyVars, nonceVars>>

\* An ingest request on whose way nothing fails.
Ingest(u, t, rk, rw, r) == IngestAnswered(u, t, rk, rw, r, "stored")

\* GET /api/entries/[id] by user u.
GetEntry(u, id, rk, rw) ==
  /\ \E found \in {SelectSeq(entries,
                               LAMBDA row : row.id = id /\ row.user_id = u)} :
       IF Len(found) # 1 THEN
         /\ response' = Respond("entries/[id]", u, 404, "Entry not found", <<>>)
         /\ UNCHANGED user_keys
       ELSE
         \E key \in {getOrCreateUserDataKey(user_keys, u, rk, rw)} :
         \E text \in {DecryptRow(found[1], key.result.val)} :
           /\ user_keys' = key.table
           /\ response' =
                IF ~key.result.ok THEN
                  Respond("entries/[id]", u, 500, "Internal server error", <<>>)
                ELSE IF ~text.ok THEN
                  Respond("entries/[id]", u, 500,
                          "Failed to decrypt entry", <<>>)
                ELSE
                  Respond("entries/[id]", u, 200, "",
                          <<[id |-> id, text |-> text.val]>>)
  /\ UNCHANGED <<env, calls, entries, requests, storage, audio_assets,
                 cipherVars, keyVars, nonceVars>>

\* Mutant: a preview that cannot be decrypted fails the request.
ListEntriesFailingHard(u, rk, rw) ==
  /\ \E rows \in {EntriesOf(u)} :
       IF rows = <<>> THEN
         /\ response' = Respond("entries", u, 200, "", <<>>)
         /\ UNCHANGED user_keys
       ELSE
         \E key \in {getOrCreateUserDataKey(user_keys, u, rk, rw)} :
           /\ user_keys' = key.table
           /\ response' =
             IF ~key.result.ok
                \/ \E i \in 1..Len(rows) :
                     ~DecryptRow(rows[i], key.result.val).ok
             THEN Respond("entries", u, 500, "Internal server error", <<>>)
             ELSE Respond("entries", u, 200, "",
                    [i \in 1..Len(rows) |->
                       [id |-> rows[i].id,
                        preview |-> DecryptRow(rows[i], key.result.val).val]])
  /\ UNCHANGED <<env, calls, entries, requests, storage, audio_assets,
                 cipherVars, keyVars, nonceVars>>

\* GET /api/entries by user u, without cursor, keyword or tag.
ListEntries(u, rk, rw) ==
  /\ \E rows \in {EntriesOf(u)} :
       IF rows = <<>> THEN
         /\ response' = Respond("entries", u, 200, "", <<>>)
         /\ UNCHANGED user_keys
       ELSE
         \E key \in {getOrCreateUserDataKey(user_keys, u, rk, rw)} :
           /\ user_keys' = key.table
           /\ response' =
             IF ~key.result.ok THEN
               Respond("entries", u, 500, "Internal server error", <<>>)
             ELSE
               Respond("entries", u, 200, "",
                 [i \in 1..Len(rows) |->
                    LET fullText == DecryptRow(rows[i], key.result.val)
                    IN  [id |-> rows[i].id,
                         preview |-> IF fullText.ok THEN fullText.val
                                     ELSE UnableToDecrypt]])
  /\ UNCHANGED <<env, calls, entries, requests, storage, audio_assets,
                 cipherVars, keyVars, nonceVars>>

\* A route that decrypts the entries of user u for a period or a search:
\* the texts it goes on with.
DecryptBatch(route, u, rk, rw) ==
  /\ \E rows \in {EntriesOf(u)} :
       IF rows = <<>> THEN
         /\ response' = Respond(route, u, 200, "", <<>>)
         /\ UNCHANGED user_keys
       ELSE
         \E key \in {getOrCreateUserDataKey(user_keys, u, rk, rw)} :
         \E kept \in {SelectSeq(rows, LAMBDA row :
                                   DecryptRow(row, key.result.val).ok)} :
           /\ user_keys' = key.table
           /\ response' =
                IF ~key.result.ok THEN
                  Respond(route, u, 500, "Internal server error", <<>>)
                ELSE
                  Respond(route, u, 200, "",
                    [i \in 1..Len(kept) |->
                       [id |-> kept[i].id,
                        text |-> DecryptRow(kept[i], key.result.val).val]])
  /\ UNCHANGED <<env, calls, entries, requests, storage, audio_assets,
                 cipherVars, keyVars, nonceVars>>

\* A bit of the stored ciphertext of an entry changes.
CorruptEntry(i) ==
  /\ i <= Len(entries)
  /\ entries' = [entries EXCEPT
                   ![i].text_encrypted = ToBase64(FlipBit(FromBase64(@), 1, 0))]
  /\ response' = NoResponse
  /\ UNCHANGED <<env, user_keys, calls, requests, storage, audio_assets,
                 cipherVars, keyVars, nonceVars>>

\* The nonce under which a new data key is wrapped plays no part in what the
\* routes store or answer, and neither does the key a reading route would
\* generate, since a user with entries has a row in user_keys: the first
\* outcome stands for all.  Successive entries are encrypted under
\* successive nonces.
RoutesNext ==
  \/ \E u \in Users, t \in Transcripts, rk \in Rand :
       Ingest(u, t, rk, 0, Len(entries) % NumRand)
  \/ \E u \in Users, id \in 1..MaxEntries : GetEntry(u, id, 0, 0)
  \/ \E u \in Users : ListEntries(u, 0, 0)
  \/ \E route \in BatchRoutes, u \in Users : DecryptBatch(route, u, 0, 0)
  \/ \E i \in 1..MaxEntries : CorruptEntry(i)

SpecRoutes == CipherInit /\ [][RoutesNext]_vars

\* ------------------------------------------------- the routes: properties
TextColumns == {"text_encrypted", "text_iv", "text_auth_tag"}

\* The row is as the ingest route wrote it: its three text columns are the
\* envelope of the ingested transcript under the data key of its user.
Intact(row) ==
  \E k \in StoredKeysOf(row.user_id), r \in Rand :
    LET encryptedData == Encrypted(requests[row.id].transcript, k, r)
    IN  /\ encryptedData.ok
        /\ row.text_encrypted = encryptedData.val.ciphertext
        /\ row.text_iv = encryptedData.val.iv
        /\ row.text_auth_tag = encryptedData.val.authTag

\* A text column of the row is the ingested transcript, as it is or encoded.
HoldsTranscript(row) ==
  LET t == requests[row.id].transcript IN
  \E f \in TextColumns :
    \/ row[f] = t
    \/ row[f] = Utf8Encode(t)
    \/ FromBase64(row[f]) = Utf8Encode(t)

\* The row does not decrypt under the data key of its user.
FailsToDecrypt(row) ==
  \A k \in StoredKeysOf(row.user_id) : ~DecryptRow(row, k).ok

\* C19: the row the ingest route has just written holds, besides its
\* identifiers and the analysis, the three envelope fields of
\* encrypt(transcript, the user's data key) and the transcript nowhere; a GET
\* of an entry that answers 200 returns the transcript that was ingested
\* under that id by the same user, and a GET fails only when a row of the
\* user is no longer what ingest wrote.
C19_EntriesEncryptedBeforeStorage ==
  /\ (response.route = "entries/ingest" /\ response.status = 200) =>
       LET row == entries[response.body[1]] IN
         /\ DOMAIN row = TextColumns \cup
              {"id", "user_id", "audio_asset_id", "sentiment", "mood",
               "energy"}
         /\ row.user_id = response.userId
         /\ Intact(row)
         /\ ~HoldsTranscript(row)
  /\ (response.route = "entries/[id]" /\ response.status = 200) =>
       LET entry == response.body[1] IN
         /\ requests[entry.id].userId = response.userId
         /\ entry.text = requests[entry.id].transcript
  /\ (response.route = "entries/[id]" /\ response.status = 500) =>
       \E i \in 1..Len(entries) :
         entries[i].user_id = response.userId /\ ~Intact(entries[i])

\* A user has read back the two-code-unit transcript they had ingested.
C19_Witness ==
  /\ response.route = "entries/[id]"
  /\ response.status = 200
  /\ response.body[1].text = <<55357, 56832>>
  /\ requests[response.body[1].id].transcript = <<55357, 56832>>
  /\ Intact(entries[response.body[1].id])

LaidOut(w, masterKey, dataKey) ==
  LET data == FromBase64(w)
      iv == Subarray(data, 0, 12)
      cipher == GcmSeal(masterKey, iv, dataKey)
  IN  /\ Len(data) = 60
      /\ iv \in {randomBytes(12, r) : r \in Rand}
      /\ Subarray(data, 12, 28) = cipher.tag
      /\ Subarray(data, 28, 60) = cipher.ct

\* C24: the wrapped key wrapDataKey produces for a 32-byte data key decodes
\* to exactly 60 bytes, the nonce in bytes [0,12), the auth tag in [12,28)
\* and the ciphertext in [28,60); reWrapDataKey emits the same layout under
\* the new master key; and unwrapDataKey opens its input split at exactly
\* those offsets.
C24_WrappedKeyLayout ==
  /\ (kcall.op = "wrapDataKey" /\ kcall.result.ok) =>
       /\ Len(kcall.dataKey) = 32
       /\ LaidOut(kcall.result.val, getMasterKey(kcall.masterKeyEnv).val,
                  kcall.dataKey)
  /\ (kcall.op = "reWrapDataKey" /\ kcall.result.ok) =>
       LaidOut(kcall.result.val, FromBase64(kcall.newMasterKeyBase64),
               Unwrapped(kcall.masterKeyEnv, kcall.input).val)
  /\ (kcall.op = "unwrapDataKey" /\ ~Misconfigured(kcall.masterKeyEnv)) =>
       LET data == FromBase64(kcall.input) IN
         kcall.result =
           GcmOpen(getMasterKey(kcall.masterKeyEnv).val,
                   Subarray(data, 0, 12), Subarray(data, 12, 28),
                   Subarray(data, 28, Len(data)))

\* A key re-wrapped for another master key, 60 bytes long, has been
\* unwrapped under that master key.
C24_Witness ==
  /\ kcall.op = "unwrapDataKey" /\ kcall.result.ok
  /\ stored.origin = "reWrapDataKey"
  /\ kcall.input = stored.wrapped_data_key
  /\ Len(FromBase64(kcall.input)) = 60
  /\ stored.previousEnv # stored.masterKeyEnv

\* ------------------------------------- provisioning: a misconfigured process
\* The values getMasterKey refuses.
MisconfiguredEnvs == {e \in AllEnvs : Misconfigured(e)}

\* The process may have been started with a value of the variable that
\* getMasterKey refuses, or with a valid key; no user has a row yet.
ConfigInit ==
  /\ env \in MisconfiguredEnvs \cup {EnvText(ToBase64(MasterKeyBytes(1)))}
  /\ user_keys = <<>>
  /\ calls = [c \in CallIds |-> IdleCall]
  /\ CipherIdle /\ KeysIdle /\ NonceIdle /\ RoutesIdle

SpecConfig == ConfigInit /\ [][Next]_vars

\* C27: while the master key configuration is missing or not 32 bytes long,
\* an invocation for a user without a row fails with ConfigurationError
\* after its lookup, before any insert is attempted, and the table is left
\* without a row.
C27_MisconfiguredCallStoresNothing ==
  env \in MisconfiguredEnvs =>
    /\ user_keys = <<>>
    /\ \A c \in CallIds :
         /\ calls[c].inserts = 0
         /\ calls[c].pc \in {"idle", "lookup", "threw"}
         /\ calls[c].pc = "threw" =>
              /\ calls[c].result.err = "ConfigurationError"
              /\ calls[c].result.val = <<>>
              /\ calls[c].lookups = 1

\* Under a master key of 31 bytes an invocation has failed after its lookup
\* found no row.
C27_Witness ==
  /\ env.set /\ Len(FromBase64(env.text)) = 31
  /\ \E c \in CallIds :
       /\ calls[c].pc = "threw" /\ ~calls[c].existingKey
       /\ calls[c].lookups = 1
       /\ RowsOf(user_keys, calls[c].userId) = {}

\* --------------------------------------- provisioning: a cancelled request
\* The request that called getOrCreateUserDataKey is aborted when the insert
\* has committed and before the function has returned the key to it.
CancelAfterInsert(c) ==
  /\ calls[c].pc = "insert"
  /\ LET ins == InsertRow(user_keys, calls[c].userId, calls[c].wrappedKey) IN
       /\ ~ins.error
       /\ user_keys' = ins.table
       /\ calls' = [calls EXCEPT ![c].pc = "cancelled", ![c].inserts = @ + 1]
  /\ UNCHANGED <<env, cipherVars, keyVars, nonceVars, routeVars>>

CancelNext ==
  \/ Next
  \/ \E c \in CallIds : CancelAfterInsert(c)

\* One master key is configured throughout.
SpecCancel == CipherInit /\ [][CancelNext]_vars

\* C22: once an invocation was cancelled after its insert committed, the
\* user has exactly one row, which unwraps to the key that invocation had
\* generated; every other invocation for the user that ends returns that
\* key, whether it was in flight at the time or began later, and none
\* fails or stores a second key.
C22_CancelledInsertKeepsKey ==
  \A c \in CallIds :
    calls[c].pc = "cancelled" =>
      /\ Cardinality(RowsOf(user_keys, calls[c].userId)) = 1
      /\ StoredKeysOf(calls[c].userId) = {calls[c].dataKey}
      /\ \A d \in CallsFor(calls[c].userId) \ {c} :
           /\ calls[d].pc # "cancelled"
           /\ Finished(d) =>
                /\ calls[d].pc = "returned"
                /\ calls[d].result.val = calls[c].dataKey

\* An invocation was cancelled after its insert, and an invocation whose
\* lookup then found the row has returned the key of the cancelled one.
C22_Witness ==
  \E c, d \in CallIds :
    /\ calls[c].pc = "cancelled"
    /\ calls[d].userId = calls[c].userId
    /\ calls[d].pc = "returned" /\ calls[d].path = "existing"
    /\ calls[d].result.val = calls[c].dataKey

StoreAnswers ==
  \A c \in CallIds : WF_vars(Lookup(c) \/ Insert(c) \/ Retry(c))

\* The invocations race for the row of one user; those for other users
\* neither read nor write it.
LiveNext ==
  \/ \E c \in CallIds : Invoke(c, 1)
  \/ \E c \in CallIds : Lookup(c)
  \/ \E c \in CallIds : Insert(c)
  \/ \E c \in CallIds : Retry(c)

SpecLive == CipherInit /\ [][LiveNext]_vars /\ StoreAnswers

\* C26: with a store that enforces one row per user, fails only by refusing
\* a second row and never deletes, and with a valid and unchanged master
\* key, every invocation of getOrCreateUserDataKey eventually returns a key
\* and none ever fails, with KeyProvisioningError or otherwise.
C26_EveryCallReturnsKey ==
  /\ \A c \in CallIds :
       (calls[c].pc = "lookup") ~>
         (calls[c].pc = "returned" /\ Len(calls[c].result.val) = KEY_LENGTH)
  /\ [](\A c \in CallIds :
          /\ calls[c].pc # "threw"
          /\ calls[c].result.err # "KeyProvisioningError")

\* An invocation whose insert was refused has returned the key its re-read
\* found.
C26_Witness ==
  \E c \in CallIds :
    /\ calls[c].pc = "returned" /\ calls[c].path = "race"
    /\ calls[c].insertError /\ calls[c].retryKey
    /\ calls[c].lookups = 2

\* -------------------------------------------------- the routes: failures
\* The process may run without a master key; the first user may have a row
\* from before that is cut to a nonce and a four-byte tag; a stored wrapped
\* key may be damaged at any time; and an ingest request may fail at each of
\* its steps.

KeyRows ==
  {<<>>}
    \cup {<<[user_id |-> 1,
             wrapped_data_key |->
               ShortTagged(EnvText(ToBase64(MasterKeyBytes(1))), 0, 4)]>>}

\* A bit of the stored wrapped key of a user changes.
CorruptKey(i) ==
  /\ i <= Len(user_keys)
  /\ user_keys' = [user_keys EXCEPT ![i].wrapped_data_key = CorruptedKey(@)]
  /\ response' = NoResponse
  /\ UNCHANGED <<env, calls, entries, requests, storage, audio_assets,
                 cipherVars, keyVars, nonceVars>>

\* The audio left behind: objects of the bucket and audio_assets rows that
\* no entry refers to.
Orphans ==
  {path \in storage \cup {a.storage_path : a \in audio_assets} :
     \A i \in 1..Len(entries) : entries[i].audio_asset_id # path}

\* Requests are followed until one has left audio behind.
FaultsInit ==
  /\ env \in {EnvText(ToBase64(MasterKeyBytes(1))), EnvUnset}
  /\ user_keys \in KeyRows
  /\ calls = [c \in CallIds |-> IdleCall]
  /\ CipherIdle /\ KeysIdle /\ NonceIdle /\ RoutesIdle

FaultsNext ==
  \/ /\ Orphans = {}
     /\ \E u \in Users, t \in {<<32>>, <<65>>}, how \in IngestOutcomes :
          IngestAnswered(u, t, 0, 0, Len(entries) % NumRand, how)
  \/ \E u \in Users, id \in 1..MaxEntries : GetEntry(u, id, 0, 0)
  \/ \E u \in Users : ListEntries(u, 0, 0)
  \/ \E route \in BatchRoutes, u \in Users : DecryptBatch(route, u, 0, 0)
  \/ \E i \in 1..MaxEntries : CorruptEntry(i)
  \/ \E i \in 1..MaxEntries : CorruptKey(i)

SpecFaults == FaultsInit /\ [][FaultsNext]_vars

\* The data key of the user cannot be had, or encrypt fails under it.
CannotEncryptFor(u) ==
  LET key == getOrCreateUserDataKey(user_keys, u, 0, 0)
  IN  \/ ~key.result.ok
      \/ ~Encrypted(<<65>>, key.result.val, 0).ok

\* C23: an ingest request made while getOrCreateUserDataKey or encrypt fails
\* for its user writes no entries row and is answered with an error; and
\* whenever the ingest route does write a row, it answers 200 and the row is
\* the envelope of the transcript under the stored data key of the user, not
\* the transcript itself and not its envelope under some other key.
C23_NoFallbackInIngest ==
  /\ [][ response'.route = "entries/ingest" =>
            /\ CannotEncryptFor(response'.userId) =>
                 /\ entries' = entries
                 /\ response'.status >= 400
            /\ entries' # entries =>
                 /\ response'.status = 200
                 /\ Len(entries') = Len(entries) + 1
                 /\ SubSeq(entries', 1, Len(entries)) = entries ]_vars
  /\ []( (response.route = "entries/ingest" /\ response.status = 200) =>
            /\ Intact(entries[response.body[1]])
            /\ ~HoldsTranscript(entries[response.body[1]]) )

\* An ingest request of a user whose stored wrapped key unwraps to an empty
\* buffer was answered 500 and no entry exists.
C23_Witness ==
  /\ response.route = "entries/ingest"
  /\ response.status = 500
  /\ response.error = "Internal server error"
  /\ entries = <<>>
  /\ Len(user_keys) = 1
  /\ user_keys[1].user_id = response.userId
  /\ Unwrapped(env, user_keys[1].wrapped_data_key).ok
  /\ Unwrapped(env, user_keys[1].wrapped_data_key).val = <<>>

\* C21: no response of any route reveals that a failure was a decryption
\* failure: no error message says that decryption failed, and no item of a
\* list is marked as one that could not be decrypted.
C21_NoResponseRevealsDecryptFailure ==
  /\ response.error # "Failed to decrypt entry"
  /\ response.route = "entries" =>
       \A i \in 1..Len(response.body) :
         response.body[i].preview # UnableToDecrypt

\* C30: when the ingest route has answered with an error, the storage
\* object and the audio_assets row of the request are gone: no object of the
\* bucket and no audio_assets row is left without an entry referring to it.
C30_NoOrphanedAudio ==
  (response.route = "entries/ingest" /\ response.status >= 400) =>
    Orphans = {}

\* The held key was re-wrapped under a new master key, and the configured
\* master key is still the one it was re-wrapped from.
HeldReWrappedAlready ==
  /\ stored.origin = "reWrapDataKey"
  /\ stored.previousEnv = env
  /\ FromBase64(stored.masterKeyEnv.text) # FromBase64(env.text)

\* C29: reWrapDataKey applied, under the old configured master key, to a
\* wrapped key that was already re-wrapped under the new master key fails in
\* its unwrap step and returns no wrapped key, whatever new master key it is
\* given; the key that is held stays the one the first re-wrap produced,
\* and it unwraps under the new master key to the data key bytes it had.
C29_RestartedReWrapFails ==
  HeldReWrappedAlready =>
    /\ \A newKey \in NewMasterKeys, r \in Rand :
         LET result == ReWrapped(env, stored.wrapped_data_key, newKey, r)
         IN  /\ ~result.ok
             /\ result.val = <<>>
             /\ result.err = "DecryptionError"
    /\ (kcall.op = "reWrapDataKey" /\ kcall.masterKeyEnv = env
        /\ kcall.input = stored.wrapped_data_key) => ~kcall.result.ok
    /\ Unwrapped(stored.masterKeyEnv, stored.wrapped_data_key).ok
    /\ Unwrapped(stored.masterKeyEnv, stored.wrapped_data_key).val =
         stored.dataKey

\* The rotation was run a second time on the key it had re-wrapped, with a
\* valid new master key, and the call failed.
C29_Witness ==
  /\ HeldReWrappedAlready
  /\ kcall.op = "reWrapDataKey"
  /\ kcall.masterKeyEnv = env
  /\ kcall.input = stored.wrapped_data_key
  /\ kcall.newMasterKeyBase64 = stored.masterKeyEnv.text
  /\ ~kcall.result.ok
  /\ kcall.result.err = "DecryptionError"

\* ------------------------------------------------------------ key rotation
\* The procedure of the README: generate a new master key, run the re-wrap
\* script over the rows of user_keys (reWrapDataKey of each row's wrapped
\* key, written back to the row), set ENCRYPTION_MASTER_KEY to the new key,
\* redeploy.  Requests go on being served meanwhile by the process as it is
\* deployed, and provide first-use keys.

\* Steps 1 and 2 begin: a new master key is generated and the script starts.
StartRotation(newKey) ==
  /\ rotation.pc = "idle"
  /\ FromBase64(newKey) # FromBase64(env.text)
  /\ rotation' = [pc |-> "rewrapping", next |-> 1,
                  newMasterKeyBase64 |-> newKey]
  /\ UNCHANGED <<provVars, cipherVars, stored, kcall, nonceVars, routeVars>>

\* Step 2, one row: the script re-wraps the next row; a row it cannot
\* re-wrap ends it.
ReWrapRow(r) ==
  /\ rotation.pc = "rewrapping"
  /\ rotation.next <= Len(user_keys)
  /\ \E result \in {ReWrapped(env, user_keys[rotation.next].wrapped_data_key,
                              rotation.newMasterKeyBase64, r)} :
       IF result.ok THEN
         /\ user_keys' = [user_keys EXCEPT
                            ![rotation.next].wrapped_data_key = result.val]
         /\ rotation' = [rotation EXCEPT !.next = @ + 1]
       ELSE
         /\ rotation' = [rotation EXCEPT !.pc = "failed"]
         /\ UNCHANGED user_keys
  /\ UNCHANGED <<env, calls, cipherVars, stored, kcall, nonceVars, routeVars>>

\* Step 2 ends: the script has gone through the rows.
FinishReWrap ==
  /\ rotation.pc = "rewrapping"
  /\ rotation.next > Len(user_keys)
  /\ rotation' = [rotation EXCEPT !.pc = "rewrapped"]
  /\ UNCHANGED <<provVars, cipherVars, stored, kcall, nonceVars, routeVars>>

\* Steps 3 and 4: ENCRYPTION_MASTER_KEY is set to the new key and the
\* application redeployed.
Redeploy ==
  /\ rotation.pc = "rewrapped"
  /\ env' = EnvText(rotation.newMasterKeyBase64)
  /\ rotation' = [rotation EXCEPT !.pc = "deployed"]
  /\ UNCHANGED <<user_keys, calls, cipherVars, stored, kcall, nonceVars,
                 routeVars>>

RotationNext ==
  \/ Next
  \/ \E newKey \in NewMasterKeys : StartRotation(newKey)
  \/ \E r \in Rand : ReWrapRow(r)
  \/ FinishReWrap
  \/ Redeploy

SpecRotation == CipherInit /\ [][RotationNext]_vars

\* C28: at every step of the rotation procedure, with requests served and
\* first-use keys provided meanwhile, every stored wrapped key unwraps under
\* the master key the process is configured with; and so, once the new key
\* is deployed, under the new master key.
C28_RowsUnwrapThroughoutRotation ==
  \A i \in 1..Len(user_keys) :
    Unwrapped(env, user_keys[i].wrapped_data_key).ok

=============================================================================
